---- MODULE Spec2Model ----
(***************************************************************************)
(* Model of the Scrivener -> Codex projection of chapterwise-codex:        *)
(* scripts/scrivener/scrivener_file_writer.py (ScrivenerFileWriter), with  *)
(* the BinderItem tree of scrivener_parser.py as its input.                *)
(*                                                                         *)
(* _slugify and _map_type work on a string as the sequence of its          *)
(* one-character strings (Chars), so that lower(), the regular expressions *)
(* and the substring tests are computed and not assumed; Join makes the    *)
(* string again.  A path is the sequence of its components below           *)
(* output_dir, <<>> being output_dir itself; "/" never occurs in a         *)
(* component, since _slugify deletes it.                                   *)
(***************************************************************************)
EXTENDS Integers, Sequences, FiniteSets, TLC

VARIABLES
    pc,            \* "start", then the operation that has run
    binder_items,  \* ScrivenerProject.binder_items: the top-level item ids, in source order
    items,         \* id -> BinderItem (item_type, title, label, children, converted_content)
    yaml,          \* module global `yaml`: TRUE when PyYAML was importable
    cfg,           \* the constructor arguments of the ScrivenerFileWriter that ran
    writer,        \* the writer's counters and lists: files_written, dirs_created, errors, _index_files_created
    disk,          \* the output directory: [dirs: set of paths, files: path -> content]
    log,           \* every mkdir / write_text the run issued, in order
    preview,       \* the list preview_files returned
    arg,           \* the argument of a pure helper (_slugify, _map_type)
    ret            \* what the helper returned

vars == <<pc, binder_items, items, yaml, cfg, writer, disk, log, preview, arg, ret>>

(***************************************************************************)
(* Bounds of the model.                                                    *)
(***************************************************************************)
MaxNodes == 3        \* binder items in a project
MaxIndexDepth == 2   \* index_depth ranges over 0..MaxIndexDepth
MaxTitleLen == 3     \* length of the titles _slugify is applied to on its own
MaxLabelWords == 2   \* words in the labels _map_type is applied to on its own
MaxTitleWords == 1   \* words in the titles _map_type is applied to on its own

(***************************************************************************)
(* Characters.                                                             *)
(***************************************************************************)
UpperSeq == <<"A","B","C","D","E","F","G","H","I","J","K","L","M",
              "N","O","P","Q","R","S","T","U","V","W","X","Y","Z","É">>
LowerSeq == <<"a","b","c","d","e","f","g","h","i","j","k","l","m",
              "n","o","p","q","r","s","t","u","v","w","x","y","z","é">>
AsciiLower == {LowerSeq[i] : i \in 1..26}
AsciiUpper == {UpperSeq[i] : i \in 1..26}
Digits == {"0","1","2","3","4","5","6","7","8","9"}
\* str.isalnum() characters outside ASCII that the model uses
NonAsciiAlnum == {"é", "É"}
\* Python 3 `\w` on str patterns: Unicode alphanumerics and the underscore
WordChars == AsciiLower \cup AsciiUpper \cup Digits \cup NonAsciiAlnum \cup {"_"}
\* Python 3 `\s`
SpaceChars == {" ", "\t"}

\* str.lower() of one character
LowerChar(c) ==
    IF \E i \in 1..Len(UpperSeq) : UpperSeq[i] = c
    THEN LowerSeq[CHOOSE i \in 1..Len(UpperSeq) : UpperSeq[i] = c]
    ELSE c

\* "".join(cs)
RECURSIVE Join(_)
Join(cs) == IF cs = <<>> THEN "" ELSE Head(cs) \o Join(Tail(cs))

\* str.lower()
LowerStr(s) == [i \in 1..Len(s) |-> LowerChar(s[i])]

\* `needle in hay`
Contains(hay, needle) ==
    \E i \in 0..(Len(hay) - Len(needle)) :
        SubSeq(hay, i + 1, i + Len(needle)) = needle

\* hay.startswith(prefix)
StartsWith(hay, prefix) ==
    /\ Len(hay) >= Len(prefix)
    /\ SubSeq(hay, 1, Len(prefix)) = prefix

\* re.sub('[^<keep>]', '', s): delete every character outside `keep`
DeleteOutside(s, keep) == SelectSeq(s, LAMBDA c : c \in keep)

\* re.sub('[<class>]+', rep, s): every maximal run of characters of `class` becomes `rep`
RECURSIVE SubRuns(_, _, _)
SubRuns(s, class, rep) ==
    IF s = <<>> THEN <<>>
    ELSE IF Head(s) \in class
         THEN LET rest == Tail(s)
                  \* first index of `rest` outside the class, Len(rest)+1 if none
                  stop == IF \E i \in 1..Len(rest) : rest[i] \notin class
                          THEN CHOOSE i \in 1..Len(rest) :
                                   /\ rest[i] \notin class
                                   /\ \A j \in 1..(i - 1) : rest[j] \in class
                          ELSE Len(rest) + 1
              IN  rep \o SubRuns(SubSeq(rest, stop, Len(rest)), class, rep)
         ELSE <<Head(s)>> \o SubRuns(Tail(s), class, rep)

\* s.strip(ch)
RECURSIVE StripLeft(_, _)
StripLeft(s, ch) ==
    IF s # <<>> /\ Head(s) = ch THEN StripLeft(Tail(s), ch) ELSE s

RECURSIVE StripRight(_, _)
StripRight(s, ch) ==
    IF s # <<>> /\ s[Len(s)] = ch THEN StripRight(SubSeq(s, 1, Len(s) - 1), ch) ELSE s

Strip(s, ch) == StripRight(StripLeft(s, ch), ch)

Untitled == <<"u","n","t","i","t","l","e","d">>

\* ScrivenerFileWriter._slugify, on the characters of `text`
SlugifyChars(text) ==
    LET s1 == LowerStr(text)
        s2 == DeleteOutside(s1, WordChars \cup SpaceChars \cup {"-"})
        s3 == SubRuns(s2, SpaceChars \cup {"_"}, <<"-">>)
        s4 == SubRuns(s3, {"-"}, <<"-">>)
        s5 == Strip(s4, "-")
    IN  IF s5 = <<>> THEN Untitled ELSE s5

(***************************************************************************)
(* Type classification.                                                    *)
(***************************************************************************)
KwChapter   == <<"c","h","a","p","t","e","r">>
KwScene     == <<"s","c","e","n","e">>
KwCharacter == <<"c","h","a","r","a","c","t","e","r">>
KwLocation  == <<"l","o","c","a","t","i","o","n">>
KwAct       == <<"a","c","t">>
KwPart      == <<"p","a","r","t">>
KwBook      == <<"b","o","o","k">>

SemanticTypes == {"chapter", "scene", "character", "location", "act", "part",
                  "book", "folder", "document"}

ItemTypes == {"Root", "Trash", "TrashFolder", "ResearchFolder", "DraftFolder",
              "Folder", "Text"}

\* MapTypeLabel with "act" tested before "character", whose letters hold "act"
MapTypeLabelActFirst(label) ==
    LET label_lower == LowerStr(label) IN
    IF label = <<>> THEN ""
    ELSE IF Contains(label_lower, KwChapter) THEN "chapter"
    ELSE IF Contains(label_lower, KwScene) THEN "scene"
    ELSE IF Contains(label_lower, KwAct) THEN "act"
    ELSE IF Contains(label_lower, KwCharacter) THEN "character"
    ELSE IF Contains(label_lower, KwLocation) THEN "location"
    ELSE IF Contains(label_lower, KwPart) THEN "part"
    ELSE IF Contains(label_lower, KwBook) THEN "book"
    ELSE ""

\* _map_type, "Check label first": the type the label gives, "" when it gives none.
\* An absent label (None) and the empty label are both <<>>: the code only tests `if item.label`.
\* `label` and `title` are the characters of item.label and item.title.
MapTypeLabel(label) ==
    LET label_lower == LowerStr(label) IN
    IF label = <<>> THEN ""
    ELSE IF Contains(label_lower, KwChapter) THEN "chapter"
    ELSE IF Contains(label_lower, KwScene) THEN "scene"
    ELSE IF Contains(label_lower, KwCharacter) THEN "character"
    ELSE IF Contains(label_lower, KwLocation) THEN "location"
    ELSE IF Contains(label_lower, KwAct) THEN "act"
    ELSE IF Contains(label_lower, KwPart) THEN "part"
    ELSE IF Contains(label_lower, KwBook) THEN "book"
    ELSE ""

\* _map_type, "Check title patterns": the type the title gives, "" when it gives none
MapTypeTitle(title) ==
    LET title_lower == LowerStr(title) IN
    IF StartsWith(title_lower, KwChapter) THEN "chapter"
    ELSE IF StartsWith(title_lower, KwScene) THEN "scene"
    ELSE IF StartsWith(title_lower, KwAct) THEN "act"
    ELSE IF StartsWith(title_lower, KwBook) THEN "book"
    ELSE IF StartsWith(title_lower, KwPart) THEN "part"
    ELSE ""

\* ScrivenerFileWriter._map_type, on the characters of item.label and item.title
MapTypeChars(label, title, item_type) ==
    IF MapTypeLabel(label) # "" THEN MapTypeLabel(label)
    ELSE IF MapTypeTitle(title) # "" THEN MapTypeTitle(title)
    ELSE IF item_type \in {"Folder", "DraftFolder"} THEN "folder"
    ELSE "document"

\* The characters of the titles and labels of the generated projects
CharsOf ==
    ("" :> <<>>)
    @@ ("Act One" :> <<"A","c","t"," ","O","n","e">>)
    @@ ("Chapter 1" :> <<"C","h","a","p","t","e","r"," ","1">>)
    @@ ("Scene A" :> <<"S","c","e","n","e"," ","A">>)
    @@ ("scene_a" :> <<"s","c","e","n","e","_","a">>)
    @@ ("Part One" :> <<"P","a","r","t"," ","O","n","e">>)
    @@ ("Research" :> <<"R","e","s","e","a","r","c","h">>)
    @@ ("Trash" :> <<"T","r","a","s","h">>)
    @@ ("Index" :> <<"I","n","d","e","x">>)
    @@ ("Template 1" :> <<"T","e","m","p","l","a","t","e"," ","1">>)
    @@ ("Cast" :> <<"C","a","s","t">>)
    @@ ("Chapter" :> <<"C","h","a","p","t","e","r">>)
    @@ ("Scene" :> <<"S","c","e","n","e">>)
    @@ ("Character" :> <<"C","h","a","r","a","c","t","e","r">>)

\* The sequence of the characters of a string
Chars(s) == CharsOf[s]

\* _slugify and _map_type of every title, label and kind of the generated
\* projects, computed once
SlugifyTable == [t \in DOMAIN CharsOf |-> Join(SlugifyChars(Chars(t)))]
MapTypeTable ==
    [l \in DOMAIN CharsOf, t \in DOMAIN CharsOf, k \in ItemTypes |->
        MapTypeChars(Chars(l), Chars(t), k)]

\* ScrivenerFileWriter._slugify
Slugify(text) == SlugifyTable[text]

\* ScrivenerFileWriter._map_type
MapType(item) == MapTypeTable[item.label, item.title, item.item_type]

\* _is_container without its test of the type
IsContainerByKindOnly(item, c) ==
    item.item_type \in {"Folder", "DraftFolder"}

\* ScrivenerFileWriter._is_container
IsContainer(item, c) ==
    MapType(item) \in c.containers \/ item.item_type \in {"Folder", "DraftFolder"}

\* _is_content without its test of the kind
IsContentByTypeOnly(item, c) ==
    MapType(item) \in c.content_types

\* ScrivenerFileWriter._is_content
IsContent(item, c) ==
    MapType(item) \in c.content_types \/ item.item_type = "Text"

ExtMd   == ".md"
ExtYaml == ".codex.yaml"
ExtJson == ".codex.json"

\* ScrivenerFileWriter._get_extension
GetExtension(c) ==
    IF c.format = "markdown" THEN ExtMd
    ELSE IF c.format = "yaml" THEN ExtYaml
    ELSE ExtJson

(***************************************************************************)
(* The binder tree.  An item is                                            *)
(*   [uuid, item_type, title, label, converted_content, children]          *)
(* with children a sequence of item ids in source order.  synopsis, status,*)
(* keywords and include_in_compile are copied into the output verbatim and *)
(* decide no path, no index and no counter, so the model leaves them out.  *)
(* converted_content is the id of the item for a Text item (each document  *)
(* has a text of its own) and 0 (None) for every other kind, as main's     *)
(* conversion pass (iterate_text_items) leaves it.                         *)
(***************************************************************************)
\* The kinds, titles and labels an item of a generated project is drawn from
Archetypes == {
    [item_type |-> "Folder",         title |-> "Act One",    label |-> ""],
    [item_type |-> "Text",           title |-> "Chapter 1",  label |-> "Chapter"],
    [item_type |-> "Text",           title |-> "Scene A",    label |-> "Scene"],
    [item_type |-> "Text",           title |-> "scene_a",    label |-> "Character"],
    [item_type |-> "Text",           title |-> "Part One",   label |-> ""],
    [item_type |-> "Text",           title |-> "Index",      label |-> ""],
    [item_type |-> "Text",           title |-> "Template 1", label |-> ""],
    [item_type |-> "ResearchFolder", title |-> "Research",   label |-> ""],
    [item_type |-> "ResearchFolder", title |-> "Cast",       label |-> "Character"],
    [item_type |-> "Trash",          title |-> "Trash",      label |-> ""] }

\* The proper ancestors of item i under the parent vector p (0 is the binder itself)
RECURSIVE AncestorsIn(_, _)
AncestorsIn(p, i) == IF p[i] = 0 THEN {} ELSE {p[i]} \cup AncestorsIn(p, p[i])

\* Parent vectors of the forests of n items numbered in document order, as
\* ScrivenerParser._parse_binder_items meets them: the parent of item i is the
\* binder, item i-1, or an ancestor of item i-1.
ParentVectors(n) ==
    { p \in [1..n -> 0..(n - 1)] :
        \A i \in 1..n :
            /\ p[i] < i
            /\ i > 1 => (p[i] = 0 \/ p[i] = i - 1 \/ p[i] \in AncestorsIn(p, i - 1)) }

\* The ids with parent q, ascending: BinderItem.children, or binder_items for q = 0
RECURSIVE ChildrenFrom(_, _, _, _)
ChildrenFrom(p, n, q, i) ==
    IF i > n THEN <<>>
    ELSE IF p[i] = q THEN <<i>> \o ChildrenFrom(p, n, q, i + 1)
    ELSE ChildrenFrom(p, n, q, i + 1)

\* scrivener_parser.BinderItem, as _parse_binder_items and main's conversion pass leave it
BinderItem(i, a, kids) ==
    [uuid |-> i, item_type |-> a.item_type, title |-> a.title, label |-> a.label,
     converted_content |-> IF a.item_type = "Text" THEN i ELSE 0,
     children |-> kids]

(***************************************************************************)
(* The writer.                                                             *)
(***************************************************************************)
DefaultContainers   == {"act", "part", "book", "folder"}
DefaultContentTypes == {"chapter", "scene", "document"}
Formats == {"markdown", "yaml", "json"}

\* ScrivenerFileWriter.__init__: the constructor arguments a run may be given
Configs ==
    [format : Formats, dry_run : BOOLEAN, index_depth : 0..MaxIndexDepth,
     containers : {DefaultContainers}, content_types : {DefaultContentTypes}]

NoConfig ==
    [format |-> "markdown", dry_run |-> FALSE, index_depth |-> 0,
     containers |-> DefaultContainers, content_types |-> DefaultContentTypes]

IndexName == "index.codex.yaml"

\* The writer's fields after __init__, with the output directory as it is found
\* (d) and the operations issued so far (none)
NewWriter(d) ==
    [files_written |-> 0, dirs_created |-> 0, errors |-> <<>>,
     index_files_created |-> <<>>, dirs |-> d.dirs, files |-> d.files, log |-> <<>>]

EmptyDisk == [dirs |-> {}, files |-> <<>>]

\* Path.mkdir(parents=True, exist_ok=True), guarded by `if not self.dry_run`, with
\* the `self.dirs_created += 1` that follows it
Mkdir(w, c, path, node) ==
    IF c.dry_run THEN w
    ELSE [w EXCEPT !.dirs = @ \cup {path},
                   !.dirs_created = @ + 1,
                   !.log = Append(@, [op |-> "mkdir", path |-> path, node |-> node])]

\* WriteText that leaves a file that is already there as it is
WriteTextKeepFirst(w, path, content, node) ==
    [w EXCEPT !.files = [q \in (DOMAIN @) \cup {path} |->
                            IF q \in DOMAIN @ THEN @[q] ELSE content],
              !.log = Append(@, [op |-> "write", path |-> path, node |-> node,
                                 kind |-> content.kind])]

\* Path.write_text(content)
WriteText(w, path, content, node) ==
    [w EXCEPT !.files = [q \in (DOMAIN @) \cup {path} |->
                            IF q = path THEN content ELSE @[q]],
              !.log = Append(@, [op |-> "write", path |-> path, node |-> node,
                                 kind |-> content.kind])]

\* _build_markdown / _build_yaml / _build_json: the document of a content item.
\* The frontmatter of the markdown form is yaml.dump's when PyYAML is there and
\* the repr fallback when it is not.
BuildContent(item, c) ==
    [kind |-> "content", format |-> c.format,
     frontmatter |-> IF c.format = "markdown" /\ ~yaml THEN "repr" ELSE "yaml",
     id |-> IF c.format = "markdown" THEN 0 ELSE item.uuid,
     type |-> MapType(item), name |-> item.title, label |-> item.label,
     body |-> item.converted_content]

\* _write_document that does not overwrite: a file that is there already makes
\* it write under a second name
WriteDocumentFreshName(w, c, item, directory) ==
    LET first_path == Append(directory, Slugify(item.title) \o GetExtension(c))
        file_path == IF first_path \in DOMAIN w.files
                     THEN Append(directory, Slugify(item.title) \o "-2" \o GetExtension(c))
                     ELSE first_path
    IN  IF c.format = "yaml" /\ ~yaml
        THEN [w EXCEPT !.errors = Append(@, [path |-> file_path, node |-> item.uuid,
                                             error |-> "ImportError"])]
        ELSE LET w1 == IF c.dry_run THEN w
                       ELSE WriteText(w, file_path, BuildContent(item, c), item.uuid)
             IN  [w1 EXCEPT !.files_written = @ + 1]

\* _write_document that puts every file directly in the output root
WriteDocumentAtRoot(w, c, item, directory) ==
    LET file_path == <<Slugify(item.title) \o GetExtension(c)>>
    IN  IF c.format = "yaml" /\ ~yaml
        THEN [w EXCEPT !.errors = Append(@, [path |-> file_path, node |-> item.uuid,
                                             error |-> "ImportError"])]
        ELSE LET w1 == IF c.dry_run THEN w
                       ELSE WriteText(w, file_path, BuildContent(item, c), item.uuid)
             IN  [w1 EXCEPT !.files_written = @ + 1]

\* _write_document that counts a file whose build failed
WriteDocumentCountsFailure(w, c, item, directory) ==
    LET file_path == Append(directory, Slugify(item.title) \o GetExtension(c))
    IN  IF c.format = "yaml" /\ ~yaml
        THEN [w EXCEPT !.errors = Append(@, [path |-> file_path, node |-> item.uuid,
                                             error |-> "ImportError"]),
                       !.files_written = @ + 1]
        ELSE LET w1 == IF c.dry_run THEN w
                       ELSE WriteText(w, file_path, BuildContent(item, c), item.uuid)
             IN  [w1 EXCEPT !.files_written = @ + 1]

\* ScrivenerFileWriter._write_document
WriteDocument(w, c, item, directory) ==
    LET slug == Slugify(item.title)
        ext == GetExtension(c)
        file_path == Append(directory, slug \o ext)
    IN  IF c.format = "yaml" /\ ~yaml
        THEN \* _build_yaml raises ImportError, caught by `except Exception`
             [w EXCEPT !.errors = Append(@, [path |-> file_path, node |-> item.uuid,
                                             error |-> "ImportError"])]
        ELSE LET w1 == IF c.dry_run THEN w
                       ELSE WriteText(w, file_path, BuildContent(item, c), item.uuid)
             IN  [w1 EXCEPT !.files_written = @ + 1]

\* An entry {"include": "./<a>/<b>"} of a children array, the string as its
\* components <<".", a, b>>.  `src` is not in the written document: it records
\* the item the entry was generated for.
IncludeEntry(names, node) == [include |-> <<".">> \o names, src |-> node]

\* The key/value pairs a dict gets under `if value:` guards
Optional(key, present, value) == IF present THEN key :> value ELSE <<>>

\* _build_children_with_includes that lists the descendants of a content
\* node after the siblings that follow the node
RECURSIVE BuildChildrenSiblingsFirst(_, _, _, _)
BuildChildrenSiblingsFirst(c, ids, parent_dir, depth) ==
    IF ids = <<>> THEN <<>>
    ELSE
    LET item == items[Head(ids)]
        slug == Slugify(item.title)
        rest == BuildChildrenSiblingsFirst(c, Tail(ids), parent_dir, depth)
    IN  IF item.item_type \in {"Trash", "TrashFolder", "Root"} THEN rest
        ELSE IF IsContainer(item, c)
        THEN IF depth < c.index_depth
             THEN <<IncludeEntry(<<slug, IndexName>>, item.uuid)>> \o rest
             ELSE <<[id |-> item.uuid, type |-> MapType(item), name |-> item.title]
                    @@ Optional("scrivener_label", item.label # "", item.label)
                    @@ Optional("children", item.children # <<>>,
                                BuildChildrenSiblingsFirst(c, item.children,
                                    Append(parent_dir, slug), depth + 1))>> \o rest
        ELSE IF IsContent(item, c)
        THEN <<IncludeEntry(<<slug \o GetExtension(c)>>, item.uuid)>>
             \o rest
             \o (IF item.children # <<>>
                 THEN BuildChildrenSiblingsFirst(c, item.children, parent_dir, depth)
                 ELSE <<>>)
        ELSE rest

\* ScrivenerFileWriter._build_children_with_includes
RECURSIVE BuildChildrenWithIncludes(_, _, _, _)
BuildChildrenWithIncludes(c, ids, parent_dir, depth) ==
    IF ids = <<>> THEN <<>>
    ELSE
    LET item == items[Head(ids)]
        slug == Slugify(item.title)
        rest == BuildChildrenWithIncludes(c, Tail(ids), parent_dir, depth)
    IN  IF item.item_type \in {"Trash", "TrashFolder", "Root"} THEN rest
        ELSE IF IsContainer(item, c)
        THEN IF depth < c.index_depth
             THEN <<IncludeEntry(<<slug, IndexName>>, item.uuid)>> \o rest
             ELSE <<[id |-> item.uuid, type |-> MapType(item), name |-> item.title]
                    @@ Optional("scrivener_label", item.label # "", item.label)
                    @@ Optional("children", item.children # <<>>,
                                BuildChildrenWithIncludes(c, item.children,
                                    Append(parent_dir, slug), depth + 1))>> \o rest
        ELSE IF IsContent(item, c)
        THEN <<IncludeEntry(<<slug \o GetExtension(c)>>, item.uuid)>>
             \o (IF item.children # <<>>
                 THEN BuildChildrenWithIncludes(c, item.children, parent_dir, depth)
                 ELSE <<>>)
             \o rest
        ELSE rest

\* ScrivenerFileWriter._write_nested_index
WriteNestedIndex(w, c, container_item, directory, depth) ==
    IF ~yaml THEN w
    ELSE
    LET index_data ==
            [kind |-> "index", id |-> container_item.uuid,
             type |-> MapType(container_item), name |-> container_item.title,
             children |-> BuildChildrenWithIncludes(c, container_item.children,
                                                    directory, depth)]
            @@ Optional("scrivener_label", container_item.label # "",
                        container_item.label)
        index_path == Append(directory, IndexName)
    IN  IF c.dry_run THEN w
        ELSE [WriteText(w, index_path, index_data, container_item.uuid)
                  EXCEPT !.files_written = @ + 1]

\* ScrivenerFileWriter._write_nested_items
RECURSIVE WriteNestedItems(_, _, _, _, _)
WriteNestedItems(w, c, ids, current_dir, depth) ==
    IF ids = <<>> THEN w
    ELSE
    LET item == items[Head(ids)]
        slug == Slugify(item.title)
        folder_path == Append(current_dir, slug)
        w_dir == Mkdir(w, c, folder_path, item.uuid)
        w_idx == IF depth < c.index_depth
                 THEN [WriteNestedIndex(w_dir, c, item, folder_path, depth + 1)
                          EXCEPT !.index_files_created =
                                     Append(@, Append(folder_path, IndexName))]
                 ELSE w_dir
        w_doc == WriteDocument(w, c, item, current_dir)
        after ==
            IF item.item_type \in {"Trash", "TrashFolder", "Root"} THEN w
            ELSE IF IsContainer(item, c)
            THEN IF item.children # <<>>
                 THEN WriteNestedItems(w_idx, c, item.children, folder_path, depth + 1)
                 ELSE w_idx
            ELSE IF IsContent(item, c)
            THEN IF item.children # <<>>
                 THEN WriteNestedItems(w_doc, c, item.children, current_dir, depth)
                 ELSE w_doc
            ELSE w
    IN  WriteNestedItems(after, c, Tail(ids), current_dir, depth)

\* _write_master_index, "Build children - either includes to sub-indexes or inline"
RECURSIVE MasterChildren(_, _)
MasterChildren(c, ids) ==
    IF ids = <<>> THEN <<>>
    ELSE
    LET item == items[Head(ids)]
        slug == Slugify(item.title)
        rest == MasterChildren(c, Tail(ids))
    IN  IF item.item_type \in {"Trash", "TrashFolder", "Root"} THEN rest
        ELSE IF IsContainer(item, c) /\ c.index_depth > 0
        THEN <<IncludeEntry(<<slug, IndexName>>, item.uuid)>> \o rest
        ELSE IF IsContainer(item, c)
        THEN <<[id |-> item.uuid, type |-> MapType(item), name |-> item.title]
               @@ Optional("children", item.children # <<>>,
                           BuildChildrenWithIncludes(c, item.children, <<slug>>, 1))>>
             \o rest
        ELSE IF IsContent(item, c)
        THEN <<IncludeEntry(<<slug \o GetExtension(c)>>, item.uuid)>> \o rest
        ELSE rest

\* _write_master_index without its `self.files_written += 1`
WriteMasterIndexUncounted(w, c, manuscript_items) ==
    IF ~yaml THEN w
    ELSE
    LET index_data == [kind |-> "index", id |-> "project-root", type |-> "index",
                       name |-> "project", children |-> MasterChildren(c, manuscript_items)]
    IN  IF c.dry_run THEN w
        ELSE WriteText(w, <<IndexName>>, index_data, 0)

\* ScrivenerFileWriter._write_master_index
WriteMasterIndex(w, c, manuscript_items) ==
    IF ~yaml THEN w
    ELSE
    LET index_data == [kind |-> "index", id |-> "project-root", type |-> "index",
                       name |-> "project", children |-> MasterChildren(c, manuscript_items)]
    IN  IF c.dry_run THEN w
        ELSE [WriteText(w, <<IndexName>>, index_data, 0) EXCEPT !.files_written = @ + 1]

KwTemplate == <<"t","e","m","p","l","a","t","e">>

\* write_project_nested without its filter
ManuscriptItemsUnfiltered == binder_items

\* write_project_nested, "Filter to manuscript items only"
ManuscriptItems ==
    SelectSeq(binder_items, LAMBDA i :
        /\ items[i].item_type \notin {"Trash", "TrashFolder", "ResearchFolder", "Root"}
        /\ ~StartsWith(LowerStr(Chars(items[i].title)), KwTemplate))

\* ScrivenerFileWriter.write_project_nested: the writer when it returns
WriteProjectNestedResult(c) ==
    WriteMasterIndex(
        WriteNestedItems(Mkdir(NewWriter(disk), c, <<>>, 0), c, ManuscriptItems, <<>>, 0),
        c, ManuscriptItems)

\* ScrivenerFileWriter._collect_files: the paths appended to `files`, each as its
\* components ("a/b/c.md" is <<a, b, c.md>>)
RECURSIVE CollectFiles(_, _, _)
CollectFiles(c, ids, parent_path) ==
    IF ids = <<>> THEN <<>>
    ELSE
    LET item == items[Head(ids)]
        slug == Slugify(item.title)
        rest == CollectFiles(c, Tail(ids), parent_path)
    IN  IF item.item_type \in {"Trash", "Root"} THEN rest
        ELSE IF item.item_type \in {"Folder", "DraftFolder"}
        THEN (IF item.children # <<>>
              THEN CollectFiles(c, item.children, Append(parent_path, slug))
              ELSE <<>>) \o rest
        ELSE IF item.item_type = "Text"
        THEN <<Append(parent_path, slug \o GetExtension(c))>>
             \o (IF item.children # <<>>
                 THEN CollectFiles(c, item.children, parent_path)
                 ELSE <<>>)
             \o rest
        ELSE rest

\* ScrivenerFileWriter.preview_files
PreviewFilesResult(c) == CollectFiles(c, binder_items, <<>>)

\* ScrivenerFileWriter._write_items
RECURSIVE WriteItems(_, _, _, _)
WriteItems(w, c, ids, current_dir) ==
    IF ids = <<>> THEN w
    ELSE
    LET item == items[Head(ids)]
        slug == Slugify(item.title)
        folder_path == Append(current_dir, slug)
        w_dir == Mkdir(w, c, folder_path, item.uuid)
        w_doc == WriteDocument(w, c, item, current_dir)
        after ==
            IF item.item_type \in {"Trash", "Root"} THEN w
            ELSE IF item.item_type \in {"Folder", "DraftFolder"}
            THEN IF item.children # <<>>
                 THEN WriteItems(w_dir, c, item.children, folder_path)
                 ELSE w_dir
            ELSE IF item.item_type = "Text"
            THEN IF item.children # <<>>
                 THEN WriteItems(w_doc, c, item.children, current_dir)
                 ELSE w_doc
            ELSE w
    IN  WriteItems(after, c, Tail(ids), current_dir)

\* ScrivenerFileWriter.write_project: the writer when it returns
WriteProjectResult(c) ==
    WriteItems(Mkdir(NewWriter(disk), c, <<>>, 0), c, binder_items, <<>>)

\* _build_index_children that leaves out the documents under a document
RECURSIVE BuildIndexChildrenTopOnly(_, _)
BuildIndexChildrenTopOnly(c, ids) ==
    IF ids = <<>> THEN <<>>
    ELSE
    LET item == items[Head(ids)]
        slug == Slugify(item.title)
        rest == BuildIndexChildrenTopOnly(c, Tail(ids))
    IN  IF item.item_type \in {"Trash", "Root"} THEN rest
        ELSE IF item.item_type \in {"Folder", "DraftFolder"}
        THEN <<[id |-> "folder-" \o slug, type |-> "folder",
                name |-> item.title]
               @@ Optional("children", item.children # <<>>,
                           BuildIndexChildrenTopOnly(c, item.children))>> \o rest
        ELSE IF item.item_type = "Text"
        THEN <<[id |-> "file-" \o slug, type |-> MapType(item),
                name |-> item.title, _filename |-> slug \o GetExtension(c)]>>
             \o rest
        ELSE rest

\* ScrivenerFileWriter._build_index_children
RECURSIVE BuildIndexChildren(_, _)
BuildIndexChildren(c, ids) ==
    IF ids = <<>> THEN <<>>
    ELSE
    LET item == items[Head(ids)]
        slug == Slugify(item.title)
        rest == BuildIndexChildren(c, Tail(ids))
    IN  IF item.item_type \in {"Trash", "Root"} THEN rest
        ELSE IF item.item_type \in {"Folder", "DraftFolder"}
        THEN <<[id |-> "folder-" \o slug, type |-> "folder",
                name |-> item.title]
               @@ Optional("children", item.children # <<>>,
                           BuildIndexChildren(c, item.children))>> \o rest
        ELSE IF item.item_type = "Text"
        THEN <<[id |-> "file-" \o slug, type |-> MapType(item),
                name |-> item.title, _filename |-> slug \o GetExtension(c)]>>
             \o (IF item.children # <<>>
                 THEN BuildIndexChildren(c, item.children)
                 ELSE <<>>)
             \o rest
        ELSE rest

CacheIndexName == ".index.codex.yaml"

\* ScrivenerFileWriter.generate_index, with _build_cache_index: the writer when it returns
GenerateIndexResult(w, c) ==
    IF c.dry_run \/ ~yaml THEN w
    ELSE
    LET index_data == [kind |-> "index", id |-> "index-root", type |-> "project",
                       name |-> "project"]
        cache_index == [kind |-> "index", id |-> "index-root", type |-> "index",
                        name |-> "project",
                        children |-> BuildIndexChildren(c, binder_items)]
    IN  WriteText(WriteText(w, <<IndexName>>, index_data, 0),
                  <<CacheIndexName>>, cache_index, 0)

(***************************************************************************)
(* The state machine.  A project is parsed and converted (Init); then one  *)
(* writer is constructed and one of its operations runs on the project.    *)
(***************************************************************************)
WriterFields(w) ==
    [files_written |-> w.files_written, dirs_created |-> w.dirs_created,
     errors |-> w.errors, index_files_created |-> w.index_files_created]

DiskOf(w) == [dirs |-> w.dirs, files |-> w.files]

\* The values of the variables an operation does not read
Unused ==
    /\ cfg = NoConfig
    /\ writer = WriterFields(NewWriter(EmptyDisk))
    /\ disk = EmptyDisk
    /\ log = <<>>
    /\ preview = <<>>

\* The projects of at most MaxNodes items
InitProject ==
    \E n \in 0..MaxNodes :
        \E p \in ParentVectors(n) :
            \E a \in [1..n -> Archetypes] :
                /\ items = [i \in 1..n |-> BinderItem(i, a[i], ChildrenFrom(p, n, i, 1))]
                /\ binder_items = ChildrenFrom(p, n, 0, 1)

Init ==
    /\ pc = "start"
    /\ InitProject
    /\ yaml \in BOOLEAN
    /\ Unused
    /\ arg = <<>>
    /\ ret = ""

\* writer = ScrivenerFileWriter(...); writer.write_project_nested(project)
WriteProjectNested ==
    /\ pc = "start"
    /\ \E c \in Configs :
        LET w == WriteProjectNestedResult(c) IN
        /\ cfg' = c
        /\ writer' = WriterFields(w)
        /\ disk' = DiskOf(w)
        /\ log' = w.log
    /\ pc' = "nested"
    /\ UNCHANGED <<binder_items, items, yaml, preview, arg, ret>>

\* writer = ScrivenerFileWriter(...); writer.write_project(project)
WriteProject ==
    /\ pc = "start"
    /\ \E c \in Configs :
        LET w == WriteProjectResult(c) IN
        /\ cfg' = c
        /\ writer' = WriterFields(w)
        /\ disk' = DiskOf(w)
        /\ log' = w.log
    /\ pc' = "flat"
    /\ UNCHANGED <<binder_items, items, yaml, preview, arg, ret>>

\* writer.generate_index(project), after write_project as main calls it
GenerateIndex ==
    /\ pc = "flat"
    /\ LET w0 == writer @@ disk @@ [log |-> log]
           w == GenerateIndexResult(w0, cfg) IN
        /\ writer' = WriterFields(w)
        /\ disk' = DiskOf(w)
        /\ log' = w.log
    /\ pc' = "flat_indexed"
    /\ UNCHANGED <<binder_items, items, yaml, cfg, preview, arg, ret>>

\* main, "Final report": what is printed for a run that wrote (its type, its
\* success flag and its file count), and the value main returns.
\* result.errors is not read.
FinalReport(w) ==
    [type |-> "result", success |-> TRUE, filesGenerated |-> w.files_written,
     exit |-> 0]

\* main, the preview that is printed for a dry run
PreviewReport(files) ==
    [type |-> "preview", files |-> files, fileCount |-> Len(files), exit |-> 0]

\* main, `if args.dry_run:` -- the preview branch
MainDryRun ==
    /\ pc = "start"
    /\ \E c \in Configs :
        /\ c.dry_run
        /\ cfg' = c
        /\ preview' = PreviewFilesResult(c)
        /\ ret' = PreviewReport(PreviewFilesResult(c))
    /\ pc' = "main_preview"
    /\ UNCHANGED <<binder_items, items, yaml, writer, disk, log, arg>>

\* main, `if use_nested:` -- write_project_nested by a writer that is not a dry run
MainNested ==
    /\ pc = "start"
    /\ \E c \in Configs :
        LET w == WriteProjectNestedResult(c) IN
        /\ ~c.dry_run
        /\ cfg' = c
        /\ writer' = WriterFields(w)
        /\ disk' = DiskOf(w)
        /\ log' = w.log
        /\ ret' = FinalReport(w)
    /\ pc' = "main_nested"
    /\ UNCHANGED <<binder_items, items, yaml, preview, arg>>

\* main, `else:` -- write_project, then generate_index unless --no-index
MainFlat ==
    /\ pc = "start"
    /\ \E c \in Configs, generate_index \in BOOLEAN :
        LET w1 == WriteProjectResult(c)
            w == IF generate_index THEN GenerateIndexResult(w1, c) ELSE w1 IN
        /\ ~c.dry_run
        /\ cfg' = c
        /\ writer' = WriterFields(w)
        /\ disk' = DiskOf(w)
        /\ log' = w.log
        /\ ret' = FinalReport(w)
        /\ pc' = IF generate_index THEN "main_flat_indexed" ELSE "main_flat"
    /\ UNCHANGED <<binder_items, items, yaml, preview, arg>>

NoProject ==
    /\ binder_items = <<>>
    /\ items = <<>>
    /\ yaml = TRUE

\* The characters of the titles _slugify is applied to on its own
SlugAlphabet == {"a", "A", "1", "_", "-", " ", "!", "é", "É"}

InitSlugify ==
    /\ pc = "start"
    /\ NoProject
    /\ Unused
    /\ arg \in UNION {[1..n -> SlugAlphabet] : n \in 0..MaxTitleLen}
    /\ ret = ""

\* slug = self._slugify(text)
SlugifyCall ==
    /\ pc = "start"
    /\ ret' = SlugifyChars(arg)
    /\ pc' = "slugified"
    /\ UNCHANGED <<binder_items, items, yaml, cfg, writer, disk, log, preview, arg>>

\* The words the labels and titles _map_type is applied to on its own are made of
MapWords == {
    <<"C","h","a","p","t","e","r">>, <<"S","C","E","N","E">>,
    <<"C","h","a","r","a","c","t","e","r">>, <<"l","o","c","a","t","i","o","n">>,
    <<"A","c","t">>, <<"p","a","r","t">>, <<"B","o","o","k">>, <<"x"," ">> }

\* The concatenations of at most n words
RECURSIVE WordStrings(_)
WordStrings(n) ==
    IF n = 0 THEN {<<>>}
    ELSE WordStrings(n - 1) \cup {w \o s : w \in MapWords, s \in WordStrings(n - 1)}

InitMapType ==
    /\ pc = "start"
    /\ NoProject
    /\ Unused
    /\ arg \in [label : WordStrings(MaxLabelWords), title : WordStrings(MaxTitleWords),
                item_type : ItemTypes]
    /\ ret = ""

\* mapped_type = self._map_type(item)
MapTypeCall ==
    /\ pc = "start"
    /\ ret' = MapTypeChars(arg.label, arg.title, arg.item_type)
    /\ pc' = "mapped"
    /\ UNCHANGED <<binder_items, items, yaml, cfg, writer, disk, log, preview, arg>>

\* A nested run by a writer constructed with any arguments
Next == WriteProjectNested

Spec == Init /\ [][Next]_vars

\* A flat run
NextFlat ==
    \/ WriteProject
    \/ GenerateIndex

SpecFlat == Init /\ [][NextFlat]_vars

\* The command line: a dry run, or a nested or a flat run that writes
NextMain ==
    \/ MainDryRun
    \/ MainNested
    \/ MainFlat

SpecMain == Init /\ [][NextMain]_vars

NextSlugify == SlugifyCall

SpecSlugify == InitSlugify /\ [][NextSlugify]_vars

NextMapType == MapTypeCall

SpecMapType == InitMapType /\ [][NextMapType]_vars

(***************************************************************************)
(* Claims.                                                                 *)
(***************************************************************************)
AsciiSlugChars == AsciiLower \cup Digits \cup {"-"}
PunctuationChars == {"_", "-", "!"}

\* C8: for every title, _slugify returns a non-empty string whose characters
\* are all in [a-z0-9-], and "untitled" for the empty title and for a title
\* made only of punctuation.  (The original claim; a title with a non-ASCII
\* letter refutes it.)
C8_SlugIsAsciiLower ==
    pc = "slugified" =>
        /\ ret # <<>>
        /\ \A i \in 1..Len(ret) : ret[i] \in AsciiSlugChars
        /\ (\A i \in 1..Len(arg) : arg[i] \in PunctuationChars) => ret = Untitled

\* C8, what the code does satisfy: the slug is never empty, holds no upper-case
\* letter, no space, no underscore and no punctuation but single inner hyphens;
\* it is within [a-z0-9-] when the title is ASCII; empty and punctuation-only
\* titles give "untitled".
C8_SlugOfAsciiTitle ==
    pc = "slugified" =>
        /\ ret # <<>>
        /\ \A i \in 1..Len(ret) : ret[i] \in AsciiSlugChars \cup {"é"}
        /\ ret[1] # "-" /\ ret[Len(ret)] # "-"
        /\ \A i \in 1..(Len(ret) - 1) : ~(ret[i] = "-" /\ ret[i + 1] = "-")
        /\ (\A i \in 1..Len(arg) : arg[i] \notin NonAsciiAlnum)
               => \A i \in 1..Len(ret) : ret[i] \in AsciiSlugChars
        /\ (\A i \in 1..Len(arg) : arg[i] \in PunctuationChars) => ret = Untitled

\* The keyword lists of the claim, in its order, with the characters of each keyword
LabelKeywords == <<"chapter", "scene", "character", "location", "act", "part", "book">>
TitleKeywords == <<"chapter", "scene", "act", "book", "part">>
KeywordChars ==
    [chapter |-> KwChapter, scene |-> KwScene, character |-> KwCharacter,
     location |-> KwLocation, act |-> KwAct, part |-> KwPart, book |-> KwBook]

\* The positions of LabelKeywords whose keyword is a case-insensitive substring of the label
C9_LabelHits(label) ==
    {i \in 1..Len(LabelKeywords) : Contains(LowerStr(label), KeywordChars[LabelKeywords[i]])}

\* The keywords of TitleKeywords the title starts with, case-insensitively
C9_TitleHits(title) ==
    {i \in 1..Len(TitleKeywords) : StartsWith(LowerStr(title), KeywordChars[TitleKeywords[i]])}

\* First-match-wins evaluation as the claim words it
C9_FirstMatch(a) ==
    IF a.label # <<>> /\ C9_LabelHits(a.label) # {}
    THEN LabelKeywords[CHOOSE i \in C9_LabelHits(a.label) :
                           \A j \in C9_LabelHits(a.label) : i <= j]
    ELSE IF C9_TitleHits(a.title) # {}
    THEN TitleKeywords[CHOOSE i \in C9_TitleHits(a.title) : TRUE]
    ELSE IF a.item_type \in {"Folder", "DraftFolder"} THEN "folder"
    ELSE "document"

\* C9: _map_type returns, for every (label, title, kind), the first keyword of
\* [chapter, scene, character, location, act, part, book] that is a
\* case-insensitive substring of a present label; failing that the one keyword of
\* [chapter, scene, act, book, part] the title starts with; failing that folder
\* for a Folder or DraftFolder; failing that document.  A matching label
\* overrides title and kind, and the value is one of the nine semantic types.
C9_MapTypeFirstMatch ==
    pc = "mapped" =>
        /\ ret \in SemanticTypes
        /\ ret = C9_FirstMatch(arg)
        /\ Cardinality(C9_TitleHits(arg.title)) <= 1
        /\ (arg.label # <<>> /\ C9_LabelHits(arg.label) # {}) => ret \in
               {LabelKeywords[i] : i \in C9_LabelHits(arg.label)}

\* C9 witness: the label "Character" (which holds "act" too) on a Folder titled
\* "Act": the label wins over title and kind, and "character" over "act"
C9_Witness ==
    /\ pc = "mapped"
    /\ arg.label = <<"C","h","a","r","a","c","t","e","r">>
    /\ arg.title = <<"A","c","t">>
    /\ arg.item_type = "Folder"
    /\ ret = "character"

(***************************************************************************)
(* Reading a finished nested run: the tree, and what the log and the disk  *)
(* say was done for an item.                                               *)
(***************************************************************************)
Range(f) == {f[i] : i \in DOMAIN f}

Nodes == DOMAIN items

\* A nested run that writes has returned
NestedRunDone == pc = "nested" /\ ~cfg.dry_run

\* The item n is a child of, 0 for a top-level item
ParentOf(n) ==
    IF \E m \in Nodes : n \in Range(items[m].children)
    THEN CHOOSE m \in Nodes : n \in Range(items[m].children)
    ELSE 0

\* The partition predicates as spec.md 4.3 words them
SaidContainer(n) ==
    MapType(items[n]) \in cfg.containers \/ items[n].item_type \in {"Folder", "DraftFolder"}
SaidContent(n) ==
    MapType(items[n]) \in cfg.content_types \/ items[n].item_type = "Text"

\* Traversal depth: 0 at the top level, one more under a container, the same
\* under a content node
RECURSIVE TraversalDepth(_)
TraversalDepth(n) ==
    IF ParentOf(n) = 0 THEN 0
    ELSE IF SaidContainer(ParentOf(n)) THEN TraversalDepth(ParentOf(n)) + 1
    ELSE TraversalDepth(ParentOf(n))

\* The directories created for item n (a container the walk reached has one)
MkdirOf(n) == {e \in Range(log) : e.op = "mkdir" /\ e.node = n}
DirOf(n) == (CHOOSE e \in MkdirOf(n) : TRUE).path

\* The positions in the log of the writes of an index / a content document for n
IndexWrites(n) ==
    {i \in DOMAIN log : log[i].op = "write" /\ log[i].node = n /\ log[i].kind = "index"}
ContentWrites(n) ==
    {i \in DOMAIN log : log[i].op = "write" /\ log[i].node = n /\ log[i].kind = "content"}

\* The paths the walk gave the document of n: written, or failed with a recorded error
AssignedPaths(n) ==
    {log[i].path : i \in ContentWrites(n)}
        \cup {e.path : e \in {x \in Range(writer.errors) : x.node = n}}

\* The walk did something for n
Acted(n) == MkdirOf(n) # {} \/ AssignedPaths(n) # {}

\* The index documents on the disk
IndexDocs == {p \in DOMAIN disk.files : disk.files[p].kind = "index"}

\* The directory of a path
DirName(p) == SubSeq(p, 1, Len(p) - 1)

\* "./a/b" from <<".", "a", "b">>
RECURSIVE PathString(_)
PathString(comps) ==
    IF Len(comps) = 1 THEN comps[1]
    ELSE comps[1] \o "/" \o PathString(Tail(comps))

\* The include entries of a children array, those nested in inlined containers included
RECURSIVE EntriesIn(_)
EntriesIn(children) ==
    UNION { IF "include" \in DOMAIN children[k] THEN {children[k]}
            ELSE IF "children" \in DOMAIN children[k]
            THEN EntriesIn(children[k].children)
            ELSE {} : k \in DOMAIN children }

\* The inlined container objects of a children array, at any nesting
RECURSIVE InlinedIn(_)
InlinedIn(children) ==
    UNION { IF "include" \in DOMAIN children[k] THEN {}
            ELSE {children[k]} \cup
                 (IF "children" \in DOMAIN children[k]
                  THEN InlinedIn(children[k].children) ELSE {}) : k \in DOMAIN children }

\* The path of the index of the nearest proper ancestor of n that owns one; the
\* root index when no ancestor does
RECURSIVE OwnerIndexPath(_)
OwnerIndexPath(n) ==
    LET m == ParentOf(n) IN
    IF m = 0 THEN <<IndexName>>
    ELSE IF MkdirOf(m) # {} /\ TraversalDepth(m) < cfg.index_depth
    THEN Append(DirOf(m), IndexName)
    ELSE OwnerIndexPath(m)

\* C1: in a nested run with index_depth = N, a container reached at traversal
\* depth d has an index document of its own written in its directory exactly
\* when d < N; with N = 0 the root index is written and is the only index
\* document written.  (The original claim; a run without PyYAML refutes it.)
C1_OwnIndexIffDepthBelowN ==
    NestedRunDone =>
        /\ \A n \in Nodes : MkdirOf(n) # {} =>
              ((\E i \in IndexWrites(n) : log[i].path = Append(DirOf(n), IndexName))
                   <=> TraversalDepth(n) < cfg.index_depth)
        /\ cfg.index_depth = 0 =>
              /\ \E i \in IndexWrites(0) : log[i].path = <<IndexName>>
              /\ \A i \in DOMAIN log : (log[i].op = "write" /\ log[i].kind = "index")
                                           => log[i].node = 0

\* C1 where PyYAML is importable: the statement itself
C1_WhereYamlIsThere == yaml => C1_OwnIndexIffDepthBelowN

\* C2: in every index document a nested run has written, every include pointer,
\* those nested in inlined containers included, resolved from the directory of
\* the index document, is the path of a file of the run.  (The original claim.)
C2_NoIncludeDangles ==
    NestedRunDone =>
        \A p \in IndexDocs : \A e \in EntriesIn(disk.files[p].children) :
            DirName(p) \o Tail(e.include) \in DOMAIN disk.files

\* Some include pointer under `children`, resolved from `dir` for a direct entry
\* and from the directory of the inlined container for an entry nested in one,
\* is not the path of a file
RECURSIVE DanglesFrom(_, _)
DanglesFrom(children, dir) ==
    \E k \in DOMAIN children :
        IF "include" \in DOMAIN children[k]
        THEN dir \o Tail(children[k].include) \notin DOMAIN disk.files
        ELSE /\ "children" \in DOMAIN children[k]
             /\ DanglesFrom(children[k].children, Append(dir, Slugify(children[k].name)))

\* C2, what the code does satisfy: a pointer resolves from the directory of the
\* container whose children list holds it
C2_ResolvesFromContainerDir ==
    NestedRunDone => \A p \in IndexDocs : ~DanglesFrom(disk.files[p].children, DirName(p))

\* C3: a container reached at depth d >= N appears as an inlined object (id,
\* type, name, and the list of its children when it has any) in the index
\* document of its nearest index-owning ancestor, the root index if there is
\* none.  (The original claim, on runs with PyYAML that write markdown, where
\* every index document is written and none is overwritten.)
C3_DeepContainerIsInlined ==
    (NestedRunDone /\ yaml /\ cfg.format = "markdown") =>
        \A n \in Nodes : (MkdirOf(n) # {} /\ TraversalDepth(n) >= cfg.index_depth) =>
            LET p == OwnerIndexPath(n) IN
            /\ p \in IndexDocs
            /\ \E o \in InlinedIn(disk.files[p].children) :
                  /\ o.id = n
                  /\ o.type = MapType(items[n])
                  /\ o.name = items[n].title
                  /\ items[n].children # <<>> => "children" \in DOMAIN o

\* C4: every content file written and every index a container owns is
\* referenced by an include entry of the index document of the nearest
\* index-owning ancestor of its item (the root index if there is none), the files
\* of the children of a top-level content node included.  (The original claim,
\* on runs with PyYAML that write markdown.)
C4_EveryFileIsReferenced ==
    (NestedRunDone /\ yaml /\ cfg.format = "markdown") =>
        \A n \in Nodes : \A i \in ContentWrites(n) \cup IndexWrites(n) :
            LET p == OwnerIndexPath(n) IN
            /\ p \in IndexDocs
            /\ \E e \in EntriesIn(disk.files[p].children) :
                  /\ e.src = n
                  /\ e.include[Len(e.include)] = log[i].path[Len(log[i].path)]

\* main has run a writer that is not a dry run to its end
RealRunDone == pc \in {"main_nested", "main_flat", "main_flat_indexed"}

\* C5: the list preview_files returns equals, path for path and in count, the
\* paths the real run of the same format, mode and index settings writes, the
\* index documents included.  (The original claim.)
C5_PreviewEqualsWritten ==
    RealRunDone =>
        LET files == PreviewFilesResult([cfg EXCEPT !.dry_run = TRUE]) IN
        /\ Range(files) = DOMAIN disk.files
        /\ Len(files) = Cardinality(DOMAIN disk.files)

\* The project of the example: Folder "Act One" > Text "Chapter 1" (label
\* Chapter) > Text "Scene A" (label Scene)
C6_Project ==
    /\ binder_items = <<1>>
    /\ DOMAIN items = 1..3
    /\ items[1] = BinderItem(1, [item_type |-> "Folder", title |-> "Act One",
                                 label |-> ""], <<2>>)
    /\ items[2] = BinderItem(2, [item_type |-> "Text", title |-> "Chapter 1",
                                 label |-> "Chapter"], <<3>>)
    /\ items[3] = BinderItem(3, [item_type |-> "Text", title |-> "Scene A",
                                 label |-> "Scene"], <<>>)

\* The include strings of a children array that holds include entries only
IncludeStrings(children) ==
    [k \in DOMAIN children |->
        IF "include" \in DOMAIN children[k] THEN PathString(children[k].include)
        ELSE "(inlined)"]

\* C6: for the project Folder "Act One" > Text "Chapter 1" > Text "Scene A", a
\* nested run with index_depth = 1 and format markdown writes
\* act-one/index.codex.yaml with the children ./chapter-1.md and ./scene-a.md,
\* both files beside that index, and a root index whose only child is the
\* include ./act-one/index.codex.yaml.  (The original claim; a run without
\* PyYAML refutes it.)
C6_RoundTripExample ==
    (NestedRunDone /\ C6_Project /\ cfg.index_depth = 1 /\ cfg.format = "markdown") =>
        /\ <<"act-one", IndexName>> \in IndexDocs
        /\ IncludeStrings(disk.files[<<"act-one", IndexName>>].children)
               = <<"./chapter-1.md", "./scene-a.md">>
        /\ <<"act-one", "chapter-1.md">> \in DOMAIN disk.files
        /\ disk.files[<<"act-one", "chapter-1.md">>] = BuildContent(items[2], cfg)
        /\ <<"act-one", "scene-a.md">> \in DOMAIN disk.files
        /\ disk.files[<<"act-one", "scene-a.md">>] = BuildContent(items[3], cfg)
        /\ <<IndexName>> \in IndexDocs
        /\ IncludeStrings(disk.files[<<IndexName>>].children)
               = <<"./act-one/index.codex.yaml">>

\* C6 where PyYAML is importable: the example itself
C6_WhereYamlIsThere == yaml => C6_RoundTripExample

\* The paths the document of n was written to
WrittenPaths(n) == {log[i].path : i \in ContentWrites(n)}

\* a and b are siblings, a the earlier, whose titles have one slug, and the
\* walk wrote a content file for each
Colliding(a, b) ==
    /\ a < b
    /\ ParentOf(a) = ParentOf(b)
    /\ Slugify(items[a].title) = Slugify(items[b].title)
    /\ ContentWrites(a) # {}
    /\ ContentWrites(b) # {}

\* The last write to path p
LastWrite(p) ==
    log[CHOOSE i \in DOMAIN log :
            /\ log[i].op = "write" /\ log[i].path = p
            /\ \A j \in DOMAIN log : (log[j].op = "write" /\ log[j].path = p) => j <= i]

\* C7 as first stated: two sibling content nodes whose titles have one slug
\* are written to one path, and after the run that path holds the document of
\* the later sibling.  (Read on runs that write markdown, where no content
\* path is the path of an index document.)
C7_LaterSiblingSurvives ==
    (NestedRunDone /\ cfg.format = "markdown") =>
        \A a, b \in Nodes : Colliding(a, b) =>
            /\ WrittenPaths(a) = WrittenPaths(b)
            /\ \A p \in WrittenPaths(b) :
                  /\ p \in DOMAIN disk.files
                  /\ disk.files[p] = BuildContent(items[b], cfg)

\* C7: two sibling content nodes whose titles have one slug are written to
\* one path, with no suffix to tell them apart, and each write replaces the
\* file; after the run the path holds one file, which is what was written there
\* last and never the earlier sibling's document: the later sibling's document,
\* unless a node after it in the walk, or an index document, was written to
\* that path too.
C7_LastWriteSurvives ==
    NestedRunDone =>
        \A a, b \in Nodes : Colliding(a, b) =>
            /\ WrittenPaths(a) = WrittenPaths(b)
            /\ Cardinality(WrittenPaths(b)) = 1
            /\ \A p \in WrittenPaths(b) :
                  /\ p \in DOMAIN disk.files
                  /\ LastWrite(p).node # a
                  /\ LastWrite(p).kind = "content" =>
                        /\ LastWrite(p).node >= b
                        /\ disk.files[p] = BuildContent(items[LastWrite(p).node], cfg)
                  /\ LastWrite(p).kind = "index" => p \in IndexDocs

\* C7 witness: "Scene A" and "scene_a", siblings, are both written to one
\* path, which holds the second one's document, different from the first one's
C7_Witness ==
    /\ NestedRunDone
    /\ \E a, b \in Nodes :
          /\ Colliding(a, b)
          /\ items[a].title # items[b].title
          /\ \A p \in WrittenPaths(b) :
                /\ LastWrite(p).node = b
                /\ disk.files[p] = BuildContent(items[b], cfg)
                /\ disk.files[p] # BuildContent(items[a], cfg)

\* The filter of the top level: the kinds write_project_nested leaves out, and
\* the titles that start with "template"
TopFiltered(n) ==
    \/ items[n].item_type \in {"Trash", "TrashFolder", "ResearchFolder", "Root"}
    \/ StartsWith(LowerStr(Chars(items[n].title)), KwTemplate)

\* n satisfies neither partition predicate
Neither(n) == ~SaidContainer(n) /\ ~SaidContent(n)

\* The skip rule as first stated: neither predicate, or filtered at the top
\* level; an item under a skipped item goes with it
RECURSIVE SkippedAsStated(_)
SkippedAsStated(n) ==
    \/ Neither(n)
    \/ ParentOf(n) = 0 /\ TopFiltered(n)
    \/ ParentOf(n) # 0 /\ SkippedAsStated(ParentOf(n))

\* The skip rule with the kinds the walk leaves out at every level
RECURSIVE SkippedAtAnyLevel(_)
SkippedAtAnyLevel(n) ==
    \/ items[n].item_type \in {"Trash", "TrashFolder", "Root"}
    \/ Neither(n)
    \/ ParentOf(n) = 0 /\ TopFiltered(n)
    \/ ParentOf(n) # 0 /\ SkippedAtAnyLevel(ParentOf(n))

\* Some index document on the disk has an entry for n
Indexed(n) ==
    \E p \in IndexDocs :
        \/ \E e \in EntriesIn(disk.files[p].children) : e.src = n
        \/ \E o \in InlinedIn(disk.files[p].children) : o.id = n

\* C10 as first stated: a node is skipped (no directory, no file, no index
\* entry) exactly when it satisfies neither predicate or is filtered at the top
\* level; every other node is materialized whatever its kind, a Trash item
\* classified as document included.
C10_SkippedIffNeitherOrFiltered ==
    NestedRunDone =>
        \A n \in Nodes :
            /\ Acted(n) <=> ~SkippedAsStated(n)
            /\ SkippedAsStated(n) => ~Indexed(n)

\* C10: a node is skipped -- no directory, no file and no index entry for it
\* or for any item under it -- exactly when its kind is Trash, TrashFolder or
\* Root, or it satisfies neither isContainer nor isContent, or it is filtered at
\* the top level, or it lies under a skipped node.  A Text, Folder or
\* DraftFolder satisfies one of the predicates.  Every other node is
\* materialized (a directory for a container; for a content node a file, or a
\* recorded error when the write fails), whatever its kind, a nested
\* ResearchFolder included.
C10_SkippedIffKindOrNeitherOrFiltered ==
    NestedRunDone =>
        \A n \in Nodes :
            /\ Acted(n) <=> ~SkippedAtAnyLevel(n)
            /\ SkippedAtAnyLevel(n) => ~Indexed(n)
            /\ items[n].item_type \in {"Text", "Folder", "DraftFolder"} => ~Neither(n)
            /\ ~SkippedAtAnyLevel(n) =>
                  IF SaidContainer(n) THEN MkdirOf(n) # {} /\ AssignedPaths(n) = {}
                  ELSE MkdirOf(n) = {} /\ AssignedPaths(n) # {}

\* C10 witness: under one materialized folder, a ResearchFolder classified as
\* document got its file and nothing was done for a Trash item classified as
\* document
C10_Witness ==
    /\ NestedRunDone
    /\ \E f, r, t \in Nodes :
          /\ ParentOf(r) = f /\ ParentOf(t) = f /\ MkdirOf(f) # {}
          /\ items[r].item_type = "ResearchFolder" /\ ContentWrites(r) # {}
          /\ items[t].item_type = "Trash" /\ MapType(items[t]) = "document"
          /\ ~Acted(t) /\ ~Indexed(t)

(***************************************************************************)
(* RTFConverter.  A text is the sequence of its characters, "\n" included. *)
(* arg holds the constructor argument and the converter's surroundings:    *)
(*   requested  the method given to __init__                               *)
(*   method     self.method                                                *)
(*   pandoc     shutil.which("pandoc") finds the executable                *)
(*   striprtf   the striprtf package can be imported                       *)
(*   stat       what stat() of rtf_path does: "file" (it is there),        *)
(*              "absent" (ENOENT and the other errors Path.exists takes    *)
(*              for False), "error" (any other OSError: EACCES on a parent *)
(*              directory, ENAMETOOLONG, which Path.exists lets through)   *)
(*   readable   read_text succeeds                                         *)
(*   content    what read_text returns when it does                        *)
(* log lists the methods a convert call has attempted, with their outcome. *)
(***************************************************************************)
MaxTextLen == 5       \* characters in the output of pandoc or rtf_to_text
MaxFileLen == 2       \* characters in the file convert is given

TextAlphabet == {"a", " ", "\n"}

\* The characters str.strip() removes
Whitespace == {" ", "\n", "\t"}

Texts == UNION {[1..n -> TextAlphabet] : n \in 0..MaxTextLen}

FileTexts == UNION {[1..n -> TextAlphabet] : n \in 0..MaxFileLen}

\* str.strip()
RECURSIVE LStripWs(_)
LStripWs(s) == IF s # <<>> /\ Head(s) \in Whitespace THEN LStripWs(Tail(s)) ELSE s

RECURSIVE RStripWs(_)
RStripWs(s) ==
    IF s # <<>> /\ s[Len(s)] \in Whitespace THEN RStripWs(SubSeq(s, 1, Len(s) - 1)) ELSE s

StripWs(s) == RStripWs(LStripWs(s))

\* s.split(sep) with `cur` the part being read
RECURSIVE SplitFrom(_, _, _)
SplitFrom(s, sep, cur) ==
    IF s = <<>> THEN <<cur>>
    ELSE IF StartsWith(s, sep)
    THEN <<cur>> \o SplitFrom(SubSeq(s, Len(sep) + 1, Len(s)), sep, <<>>)
    ELSE SplitFrom(Tail(s), sep, Append(cur, Head(s)))

\* s.split(sep)
SplitOn(s, sep) == SplitFrom(s, sep, <<>>)

\* sep.join(parts)
RECURSIVE JoinWith(_, _)
JoinWith(parts, sep) ==
    IF parts = <<>> THEN <<>>
    ELSE IF Len(parts) = 1 THEN parts[1]
    ELSE parts[1] \o sep \o JoinWith(Tail(parts), sep)

\* The loop of _clean_markdown without its `continue`: every line is kept
RECURSIVE CleanLinesKeepAll(_, _)
CleanLinesKeepAll(lines, prev_blank) ==
    IF lines = <<>> THEN <<>>
    ELSE <<Head(lines)>> \o CleanLinesKeepAll(Tail(lines), prev_blank)

\* The loop of _clean_markdown: a blank line after a blank line is left out
RECURSIVE CleanLines(_, _)
CleanLines(lines, prev_blank) ==
    IF lines = <<>> THEN <<>>
    ELSE LET is_blank == StripWs(Head(lines)) = <<>> IN
         IF is_blank /\ prev_blank THEN CleanLines(Tail(lines), prev_blank)
         ELSE <<Head(lines)>> \o CleanLines(Tail(lines), is_blank)

\* RTFConverter._clean_markdown
CleanMarkdown(markdown) ==
    StripWs(JoinWith(CleanLines(SplitOn(markdown, <<"\n">>), FALSE), <<"\n">>))

\* The loop of _text_to_markdown: each line stripped, a blank line after a
\* blank line left out
RECURSIVE CleanStripped(_, _)
CleanStripped(lines, prev_blank) ==
    IF lines = <<>> THEN <<>>
    ELSE LET stripped == StripWs(Head(lines))
             is_blank == stripped = <<>> IN
         IF is_blank /\ prev_blank THEN CleanStripped(Tail(lines), prev_blank)
         ELSE <<stripped>> \o CleanStripped(Tail(lines), is_blank)

\* [p.strip() for p in parts if p.strip()]
RECURSIVE StrippedNonBlank(_)
StrippedNonBlank(parts) ==
    IF parts = <<>> THEN <<>>
    ELSE IF StripWs(Head(parts)) = <<>> THEN StrippedNonBlank(Tail(parts))
    ELSE <<StripWs(Head(parts))>> \o StrippedNonBlank(Tail(parts))

\* RTFConverter._text_to_markdown
TextToMarkdown(text) ==
    LET content == JoinWith(CleanStripped(SplitOn(text, <<"\n">>), FALSE), <<"\n">>)
        paragraphs == StrippedNonBlank(SplitOn(content, <<"\n", "\n">>))
    IN  JoinWith(paragraphs, <<"\n", "\n">>)

\* The two clean-ups, computed once for every text of the bound
CleanMarkdownTable == [t \in Texts |-> CleanMarkdown(t)]
TextToMarkdownTable == [t \in Texts |-> TextToMarkdown(t)]

Methods == {"pandoc", "striprtf", "raw"}

\* What a convert call hands back: a text, one of the two bracketed error
\* strings, or an exception
NoResult == [kind |-> "none", text |-> <<>>]
Returned(text) == [kind |-> "text", text |-> text]
ReadError == [kind |-> "read_error", text |-> <<>>]
ConversionError == [kind |-> "conversion_error", text |-> <<>>]
Raised == [kind |-> "raised", text |-> <<>>]

InitRtf ==
    /\ pc = "rtf_new"
    /\ NoProject
    /\ Unused
    /\ \E m \in Methods, p, s, r \in BOOLEAN, st \in {"file", "absent", "error"},
          c \in FileTexts :
          arg = [requested |-> m, method |-> m, pandoc |-> p, striprtf |-> s,
                 stat |-> st, readable |-> r, content |-> c]
    /\ ret = NoResult

\* _validate_method with the striprtf test under an `elif`: a downgrade from
\* pandoc is not looked at again
ValidateMethodOneStep(a) ==
    IF a.method = "pandoc"
    THEN IF ~a.pandoc THEN "striprtf" ELSE "pandoc"
    ELSE IF a.method = "striprtf" /\ ~a.striprtf THEN "raw" ELSE a.method

\* RTFConverter._validate_method: self.method when it returns
ValidateMethod(a) ==
    LET m1 == IF a.method = "pandoc" /\ ~a.pandoc THEN "striprtf" ELSE a.method
    IN  IF m1 = "striprtf" /\ ~a.striprtf THEN "raw" ELSE m1

\* converter = RTFConverter(method)
NewConverter ==
    /\ pc = "rtf_new"
    /\ arg' = [arg EXCEPT !.method = ValidateMethod(arg)]
    /\ pc' = "rtf_ready"
    /\ UNCHANGED <<binder_items, items, yaml, cfg, writer, disk, log, preview, ret>>

\* convert, up to the choice of the method: rtf_path.exists() is outside the
\* try, so an OSError it lets through leaves convert
ConvertCall ==
    /\ pc = "rtf_ready"
    /\ IF arg.stat = "error" THEN pc' = "rtf_raised" /\ ret' = Raised
       ELSE IF arg.stat = "absent" THEN pc' = "rtf_returned" /\ ret' = Returned(<<>>)
       ELSE /\ pc' = (IF arg.method = "pandoc" THEN "rtf_pandoc"
                      ELSE IF arg.method = "striprtf" THEN "rtf_striprtf"
                      ELSE "rtf_raw")
            /\ ret' = ret
    /\ UNCHANGED <<binder_items, items, yaml, cfg, writer, disk, log, preview, arg>>

\* What subprocess.run(["pandoc", ...]) can do: exit 0, exit non-zero, time
\* out, not find the executable, or fail with another exception
PandocOutcomes == {"ok", "nonzero", "timeout", "notfound", "oserror"}

\* AfterPandocFailure that goes straight to the raw read
AfterPandocFailureToRaw(outcome) ==
    IF outcome \in {"nonzero", "timeout", "notfound"} THEN "rtf_raw"
    ELSE "rtf_returned"

\* _convert_with_pandoc: where the call goes after pandoc has not given a text
AfterPandocFailure(outcome) ==
    IF outcome \in {"nonzero", "timeout", "notfound"} THEN "rtf_striprtf"
    ELSE "rtf_returned"

\* _convert_with_pandoc, with the `except Exception` of convert around it
PandocStep ==
    /\ pc = "rtf_pandoc"
    /\ \E outcome \in PandocOutcomes :
          /\ log' = Append(log, [method |-> "pandoc", outcome |-> outcome])
          /\ IF outcome = "ok"
             THEN /\ pc' = "rtf_returned"
                  /\ \E stdout \in Texts : ret' = Returned(CleanMarkdownTable[stdout])
             ELSE /\ pc' = AfterPandocFailure(outcome)
                  /\ ret' = IF outcome = "oserror" THEN ConversionError ELSE ret
    /\ UNCHANGED <<binder_items, items, yaml, cfg, writer, disk, preview, arg>>

\* _convert_with_striprtf: where the call goes after striprtf has not given a text
AfterStriprtfFailure == "rtf_raw"

\* _convert_with_striprtf
StriprtfStep ==
    /\ pc = "rtf_striprtf"
    /\ \/ /\ ~arg.striprtf
          /\ log' = Append(log, [method |-> "striprtf", outcome |-> "import_error"])
          /\ pc' = AfterStriprtfFailure
          /\ ret' = ret
       \/ /\ arg.striprtf /\ ~arg.readable
          /\ log' = Append(log, [method |-> "striprtf", outcome |-> "exception"])
          /\ pc' = AfterStriprtfFailure
          /\ ret' = ret
       \/ /\ arg.striprtf /\ arg.readable
          /\ \/ /\ log' = Append(log, [method |-> "striprtf", outcome |-> "exception"])
                /\ pc' = AfterStriprtfFailure
                /\ ret' = ret
             \/ /\ log' = Append(log, [method |-> "striprtf", outcome |-> "ok"])
                /\ pc' = "rtf_returned"
                /\ \E text \in Texts : ret' = Returned(TextToMarkdownTable[text])
    /\ UNCHANGED <<binder_items, items, yaml, cfg, writer, disk, preview, arg>>

\* _get_raw
GetRaw ==
    /\ pc = "rtf_raw"
    /\ log' = Append(log, [method |-> "raw",
                           outcome |-> IF arg.readable THEN "ok" ELSE "exception"])
    /\ ret' = IF arg.readable THEN Returned(arg.content) ELSE ReadError
    /\ pc' = "rtf_returned"
    /\ UNCHANGED <<binder_items, items, yaml, cfg, writer, disk, preview, arg>>

\* A converter is constructed and convert is called once
NextRtf ==
    \/ NewConverter
    \/ ConvertCall
    \/ PandocStep
    \/ StriprtfStep
    \/ GetRaw

SpecRtf == InitRtf /\ [][NextRtf]_vars

\* The same, with the call running on until it returns or raises
SpecRtfLive == SpecRtf /\ WF_vars(NextRtf)

\* The convert call is over
ConvertDone == pc \in {"rtf_returned", "rtf_raised"}

\* C11: convert returns a string for every path and every availability and
\* failure of the tools and of the file; no exception leaves it.  (The original
\* claim; a path whose stat() fails with an error Path.exists does not take for
\* "absent" refutes it.)
C11_ConvertNeverRaises ==
    ConvertDone =>
        /\ pc = "rtf_returned"
        /\ ret.kind \in {"text", "read_error", "conversion_error"}

\* C11, what the code does satisfy: once exists() has answered, every way
\* through the methods ends in a returned string
C11_ReturnsOnceExistsAnswers ==
    (ConvertDone /\ arg.stat # "error") =>
        /\ pc = "rtf_returned"
        /\ ret.kind \in {"text", "read_error", "conversion_error"}

\* C12: with pandoc and striprtf both unavailable, convert, whatever method
\* was requested, returns the content of the file as text when the file can be
\* read and a bracketed error string when it cannot, a file that does not exist
\* included; it raises in neither case.  (The original claim, on paths whose
\* stat() does not fail.)
C12_RawOrBracketedError ==
    (ConvertDone /\ ~arg.pandoc /\ ~arg.striprtf /\ arg.stat # "error") =>
        /\ ret.kind # "raised"
        /\ (arg.stat = "file" /\ arg.readable) => ret = Returned(arg.content)
        /\ ~(arg.stat = "file" /\ arg.readable) => ret = ReadError

\* C12, what the code does satisfy: the raw content for a readable file, the
\* bracketed read error for a file that is there and cannot be read, the empty
\* string for a file that is absent
C12_RawOrErrorOrEmpty ==
    (ConvertDone /\ ~arg.pandoc /\ ~arg.striprtf /\ arg.stat # "error") =>
        /\ arg.method = "raw"
        /\ ret = IF arg.stat = "absent" THEN Returned(<<>>)
                 ELSE IF arg.readable THEN Returned(arg.content)
                 ELSE ReadError

\* The place of a method in the order pandoc, striprtf, raw
MethodRank(m) == IF m = "pandoc" THEN 1 ELSE IF m = "striprtf" THEN 2 ELSE 3

\* The attempts so far are in the order pandoc, striprtf, raw, each at most once
AttemptsInOrder ==
    \A i, j \in DOMAIN log : i < j => MethodRank(log[i].method) < MethodRank(log[j].method)

\* A returned call that started with pandoc tried striprtf after a pandoc
\* failure and raw after a striprtf failure
FallbacksTaken ==
    (pc = "rtf_returned" /\ arg.method = "pandoc" /\ log # <<>>) =>
        /\ log[1].method = "pandoc"
        /\ log[1].outcome \in {"nonzero", "timeout", "notfound"} =>
              Len(log) >= 2 /\ log[2].method = "striprtf"
        /\ \A i \in DOMAIN log :
              (log[i].method = "striprtf" /\ log[i].outcome # "ok") =>
                  i < Len(log) /\ log[i + 1].method = "raw"
        /\ ret.kind \in {"text", "read_error", "conversion_error"}

WalkedContent ==
    SelectSeq([i \in 1..Len(items) |-> i],
              LAMBDA n : ~SkippedAtAnyLevel(n) /\ ~SaidContainer(n))

\* C13: with format yaml and no YAML library, every content-file write of a
\* nested run fails with an ImportError that is appended to the error list of
\* the writer; the run returns all the same, files_written is not incremented,
\* nothing is written for the node, and the walk goes on to the nodes that
\* remain: every content node it comes to has its error, in walk order, and
\* every container its directory.
C13_YamlErrorsAreCollected ==
    (pc = "nested" /\ cfg.format = "yaml" /\ ~yaml) =>
        /\ [i \in DOMAIN writer.errors |-> writer.errors[i].node] = WalkedContent
        /\ \A i \in DOMAIN writer.errors :
              /\ writer.errors[i].error = "ImportError"
              /\ writer.errors[i].path \notin DOMAIN disk.files
        /\ writer.files_written = 0
        /\ disk.files = <<>>
        /\ \A i \in DOMAIN log : log[i].op # "write"
        /\ ~cfg.dry_run =>
              \A n \in Nodes : (~SkippedAtAnyLevel(n) /\ SaidContainer(n)) => MkdirOf(n) # {}

\* C13 witness: a content node failed, and after it the walk made the
\* directory of a folder and recorded the failure of a second content node
C13_Witness ==
    /\ pc = "nested" /\ cfg.format = "yaml" /\ ~yaml /\ ~cfg.dry_run
    /\ Len(writer.errors) = 2
    /\ \E f \in Nodes :
          /\ MkdirOf(f) # {}
          /\ writer.errors[1].node < f
          /\ f < writer.errors[2].node
    /\ writer.files_written = 0

\* C14: a run that ends with errors in WriteResult.errors shows them to the
\* user with the file count and is not reported as a plain success.  (The
\* original claim.)
C14_ErrorsAreReported ==
    (RealRunDone /\ writer.errors # <<>>) =>
        \/ ret.success = FALSE
        \/ "errors" \in DOMAIN ret /\ ret.errors = writer.errors
        \/ ret.exit # 0

\* C15: every nested run that writes has written exactly one master index
\* document index.codex.yaml at the output root, whatever the tree, the format
\* and the libraries at hand, and that write is the last write of the run.
\* (The original claim; a run without PyYAML refutes it.)
C15_MasterIndexWrittenLast ==
    NestedRunDone =>
        /\ Cardinality(IndexWrites(0)) = 1
        /\ \A i \in IndexWrites(0) :
              /\ log[i].path = <<IndexName>>
              /\ \A j \in DOMAIN log : log[j].op = "write" => j <= i
        /\ <<IndexName>> \in IndexDocs
        /\ disk.files[<<IndexName>>].id = "project-root"

\* C15 where PyYAML is importable: the statement itself
C15_WhereYamlIsThere == yaml => C15_MasterIndexWrittenLast

\* A flat run that wrote: write_project, then generate_index
FlatRunDone == pc = "flat_indexed" /\ ~cfg.dry_run

\* The directories and the files a flat run with index_depth d leaves, the
\* rest of the configuration being that of the run
FlatDiskWith(d) ==
    LET c == [cfg EXCEPT !.index_depth = d]
        w == WriteItems(Mkdir(NewWriter(EmptyDisk), c, <<>>, 0), c, binder_items, <<>>)
    IN  DiskOf(GenerateIndexResult(w, c))

\* The flat run leaves the same directories and files for every index_depth
FlatIgnoresIndexDepth ==
    \A d \in 0..MaxIndexDepth : FlatDiskWith(d) = disk

\* Every index document of the flat run is directly in the output root
IndexesOnlyAtRoot ==
    /\ \A p \in IndexDocs : Len(p) = 1
    /\ \A i \in DOMAIN log :
          (log[i].op = "write" /\ log[i].kind = "index") => Len(log[i].path) = 1

\* The index files that were written, in the order of their writes
IndexFilesWritten ==
    LET writes == SelectSeq(log, LAMBDA e : e.op = "write")
        index_writes == SelectSeq(writes, LAMBDA e : e.kind = "index")
    IN  [i \in DOMAIN index_writes |-> index_writes[i].path]

\* C16: a flat run (write_project, then generate_index) does not depend on
\* index_depth: any two values give the same directories and files; no
\* directory but the output root receives an index document; and exactly two
\* index files, index.codex.yaml and .index.codex.yaml, are written, at the
\* root.  (The original claim; a run without PyYAML writes no index file.)
C16_FlatWritesTwoRootIndexes ==
    FlatRunDone =>
        /\ FlatIgnoresIndexDepth
        /\ IndexesOnlyAtRoot
        /\ IndexFilesWritten = << <<IndexName>>, <<CacheIndexName>> >>
        /\ {<<IndexName>>, <<CacheIndexName>>} \subseteq IndexDocs

\* C16 where PyYAML is importable: the statement itself
C16_WhereYamlIsThere == yaml => C16_FlatWritesTwoRootIndexes

\* C16 in every environment: index_depth is not read, and no index document
\* is anywhere but at the root
C16_IndexDepthIsNotRead ==
    FlatRunDone => FlatIgnoresIndexDepth /\ IndexesOnlyAtRoot

(***************************************************************************)
(* Deeper projects.  Four levels of nesting need four items; the projects  *)
(* below have up to MaxDeepNodes items of three kinds: a folder, a         *)
(* document that is a content node, and a document whose title classifies  *)
(* it as a container ("Part One").                                         *)
(***************************************************************************)
MaxDeepNodes == 4

DeepArchetypes == {
    [item_type |-> "Folder", title |-> "Act One",  label |-> ""],
    [item_type |-> "Text",   title |-> "Scene A",  label |-> "Scene"],
    [item_type |-> "Text",   title |-> "Part One", label |-> ""] }

InitDeep ==
    /\ pc = "start"
    /\ \E n \in 0..MaxDeepNodes :
        \E p \in ParentVectors(n) :
            \E a \in [1..n -> DeepArchetypes] :
                /\ items = [i \in 1..n |-> BinderItem(i, a[i], ChildrenFrom(p, n, i, 1))]
                /\ binder_items = ChildrenFrom(p, n, 0, 1)
    /\ yaml \in BOOLEAN
    /\ Unused
    /\ arg = <<>>
    /\ ret = ""

\* A nested run on a deeper project
SpecDeep == InitDeep /\ [][Next]_vars

\* The item an entry of a children array stands for
EntryNode(e) == IF "include" \in DOMAIN e THEN e.src ELSE e.id

\* The children arrays of a document: its own, and that of every container
\* object inlined in it
ArraysOf(doc) ==
    {doc.children} \cup
    {o.children : o \in {x \in InlinedIn(doc.children) : "children" \in DOMAIN x}}

\* The children arrays of every index document on the disk
ChildrenArrays == UNION {ArraysOf(disk.files[p]) : p \in IndexDocs}

\* n is m or is under m
RECURSIVE Under(_, _)
Under(n, m) == n = m \/ (ParentOf(n) # 0 /\ Under(ParentOf(n), m))

\* a comes before b in the source (items are numbered in document order)
SourceBefore(a, b) == a < b

\* C17: the children array of every index document (the root index, an owned
\* index, every container object inlined in one) lists its entries in source
\* order: the entry of a precedes the entry of b exactly when a precedes b in
\* the source; the entries of the descendants of a content node come
\* immediately after the entry of the node, before the entry of its next
\* sibling.
C17_ChildrenInSourceOrder ==
    NestedRunDone =>
        \A a \in ChildrenArrays :
            \A i, j \in DOMAIN a :
                /\ i < j <=> SourceBefore(EntryNode(a[i]), EntryNode(a[j]))
                /\ (i < j /\ Under(EntryNode(a[j]), EntryNode(a[i])))
                      => \A k \in i..j : Under(EntryNode(a[k]), EntryNode(a[i]))
                /\ (i < j /\ ~Under(EntryNode(a[j]), EntryNode(a[i])))
                      => \A k \in j..Len(a) : ~Under(EntryNode(a[k]), EntryNode(a[i]))

\* C17 witness: a children array with the entry of a content node, then the
\* entry of its child, then the entry of its next sibling
C17_Witness ==
    /\ NestedRunDone
    /\ \E a \in ChildrenArrays :
          /\ Len(a) = 3
          /\ ParentOf(EntryNode(a[2])) = EntryNode(a[1])
          /\ ParentOf(EntryNode(a[3])) = ParentOf(EntryNode(a[1]))
          /\ ParentOf(EntryNode(a[1])) # 0

\* The directory the claim gives item n: one component, its slug, for every
\* container among its ancestors, from the root down
RECURSIVE ContainerAncestorSlugs(_)
ContainerAncestorSlugs(n) ==
    LET m == ParentOf(n) IN
    IF m = 0 THEN <<>>
    ELSE IF SaidContainer(m)
    THEN Append(ContainerAncestorSlugs(m), Slugify(items[m].title))
    ELSE ContainerAncestorSlugs(m)

\* The extension of the content files of the run
ExtensionOf(format) ==
    CASE format = "markdown" -> ".md"
      [] format = "yaml" -> ".codex.yaml"
      [] format = "json" -> ".codex.json"

\* C19: in a nested run the content file of a content node is at
\* output_root/s1/.../sk/<slug><ext>, s1..sk the slugs of exactly the
\* container ancestors of the node from the root down: every container
\* ancestor gives one component, whether or not it owns an index, and an
\* ancestor that is a content node gives none.
C19_PathFollowsContainerAncestors ==
    NestedRunDone =>
        \A n \in Nodes : (~SkippedAtAnyLevel(n) /\ ~SaidContainer(n)) =>
            AssignedPaths(n) =
                {Append(ContainerAncestorSlugs(n),
                        Slugify(items[n].title) \o ExtensionOf(cfg.format))}

\* C19 witness: a content file two directories down, written for a document
\* in a folder under a content node under a folder
C19_Witness ==
    /\ NestedRunDone
    /\ \E n \in Nodes :
          /\ ContentWrites(n) # {}
          /\ ParentOf(n) # 0 /\ SaidContainer(ParentOf(n))
          /\ ParentOf(ParentOf(n)) # 0 /\ ~SaidContainer(ParentOf(ParentOf(n)))
          /\ ParentOf(ParentOf(ParentOf(n))) # 0
          /\ SaidContainer(ParentOf(ParentOf(ParentOf(n))))
          /\ \A i \in ContentWrites(n) : Len(log[i].path) = 3
          /\ cfg.index_depth = 1

(***************************************************************************)
(* The nested projection run a second time: a new writer with the          *)
(* configuration of the first run, on the same project, into the output    *)
(* directory as the first run left it.  The log goes on after an entry     *)
(* that marks the start of the second run and keeps the errors of the      *)
(* first.                                                                  *)
(***************************************************************************)
WriteProjectNestedAgain ==
    /\ pc = "nested"
    /\ LET w == WriteProjectNestedResult(cfg) IN
        /\ writer' = WriterFields(w)
        /\ disk' = DiskOf(w)
        /\ log' = log \o <<[op |-> "rerun", path |-> <<>>, node |-> 0,
                            errors |-> writer.errors]>> \o w.log
    /\ pc' = "nested_again"
    /\ UNCHANGED <<binder_items, items, yaml, cfg, preview, arg, ret>>

NextRerun ==
    \/ WriteProjectNested
    \/ WriteProjectNestedAgain

\* Two runs on a deeper project
SpecRerun == InitDeep /\ [][NextRerun]_vars

\* The position in the log where the second run starts
RerunAt == CHOOSE k \in DOMAIN log : log[k].op = "rerun"
FirstRunLog == SubSeq(log, 1, RerunAt - 1)
SecondRunLog == SubSeq(log, RerunAt + 1, Len(log))

\* The directories made and the files written in a part of the log
DirsMadeIn(l) == {e.path : e \in {x \in Range(l) : x.op = "mkdir"}}
FilesWrittenIn(l) == {e.path : e \in {x \in Range(l) : x.op = "write"}}

\* The directories above a path, the output root included
ParentsOf(p) == {SubSeq(p, 1, k) : k \in 0..(Len(p) - 1)}

\* mkdir(parents=True, exist_ok=True) and write_text fail on what exists only
\* when a directory path is a file, a file path is a directory, or a parent is
\* not a directory
NothingInTheWay ==
    /\ disk.dirs \cap DOMAIN disk.files = {}
    /\ \A p \in DirsMadeIn(SecondRunLog) \cup FilesWrittenIn(SecondRunLog) :
          /\ ParentsOf(p) \subseteq DirsMadeIn(FirstRunLog)
          /\ ParentsOf(p) \cap FilesWrittenIn(FirstRunLog) = {}

\* C18: the nested projection run twice with the same tree, configuration and
\* output directory leaves exactly the directories and the files of one run:
\* the second run creates no further path and removes none, and nothing that
\* exists makes it fail (its errors are those of the first run).
C18_SecondRunLeavesSamePaths ==
    pc = "nested_again" =>
        /\ disk.dirs = DirsMadeIn(FirstRunLog)
        /\ DOMAIN disk.files = FilesWrittenIn(FirstRunLog)
        /\ DirsMadeIn(SecondRunLog) = DirsMadeIn(FirstRunLog)
        /\ FilesWrittenIn(SecondRunLog) = FilesWrittenIn(FirstRunLog)
        /\ NothingInTheWay
        /\ writer.errors = log[RerunAt].errors

\* C18 witness: a second run over two directories and three files of the first
C18_Witness ==
    /\ pc = "nested_again" /\ ~cfg.dry_run
    /\ Cardinality(DirsMadeIn(FirstRunLog)) >= 2
    /\ Cardinality(FilesWrittenIn(FirstRunLog)) >= 3
    /\ Cardinality(FilesWrittenIn(SecondRunLog)) >= 3
    /\ \E p \in FilesWrittenIn(SecondRunLog) : Len(p) = 2

\* A method can be used on this machine: raw always can
Available(m) ==
    IF m = "pandoc" THEN arg.pandoc
    ELSE IF m = "striprtf" THEN arg.striprtf
    ELSE TRUE

\* C21: after RTFConverter(m) the effective method is the first available
\* method at or after m in the order pandoc, striprtf, raw: pandoc that is
\* absent becomes striprtf, striprtf (requested, or come to from pandoc) that
\* cannot be imported becomes raw, and the effective method is never before m.
C21_FirstAvailableFromRequested ==
    pc # "rtf_new" =>
        /\ MethodRank(arg.requested) <= MethodRank(arg.method)
        /\ Available(arg.method)
        /\ \A m \in Methods :
              (MethodRank(arg.requested) <= MethodRank(m) /\ Available(m))
                  => MethodRank(arg.method) <= MethodRank(m)

\* C21 witness: pandoc was asked for, neither tool is there, and the
\* converter has come down to raw
C21_Witness ==
    /\ pc = "rtf_ready"
    /\ arg.requested = "pandoc" /\ ~arg.pandoc /\ ~arg.striprtf
    /\ arg.method = "raw"

(***************************************************************************)
(* The two clean-ups on their own: a text that pandoc or rtf_to_text gave  *)
(* is handed to _clean_markdown or to _text_to_markdown.                   *)
(***************************************************************************)
InitClean ==
    /\ pc = "clean_new"
    /\ NoProject
    /\ Unused
    /\ arg \in Texts
    /\ ret = <<>>

\* return self._clean_markdown(result.stdout)
CleanMarkdownCall ==
    /\ pc = "clean_new"
    /\ ret' = CleanMarkdownTable[arg]
    /\ pc' = "cleaned_pandoc"
    /\ UNCHANGED <<binder_items, items, yaml, cfg, writer, disk, log, preview, arg>>

\* return self._text_to_markdown(text)
TextToMarkdownCall ==
    /\ pc = "clean_new"
    /\ ret' = TextToMarkdownTable[arg]
    /\ pc' = "cleaned_striprtf"
    /\ UNCHANGED <<binder_items, items, yaml, cfg, writer, disk, log, preview, arg>>

NextClean ==
    \/ CleanMarkdownCall
    \/ TextToMarkdownCall

SpecClean == InitClean /\ [][NextClean]_vars

\* The lines of a text: a newline ends a line, it does not start an empty one
TextLines(t) ==
    IF t = <<>> THEN <<>>
    ELSE LET parts == SplitOn(t, <<"\n">>) IN
         IF parts[Len(parts)] = <<>> THEN SubSeq(parts, 1, Len(parts) - 1) ELSE parts

\* A line is blank: empty, or of whitespace only
IsBlankLine(l) == \A i \in DOMAIN l : l[i] \in Whitespace

\* No blank line of the text is followed by a blank line
NoTwoBlankLines(t) ==
    \A i \in 1..(Len(TextLines(t)) - 1) :
        ~(IsBlankLine(TextLines(t)[i]) /\ IsBlankLine(TextLines(t)[i + 1]))

\* The non-blank lines of a text, in their order, without the whitespace around them
NonBlankLines(t) ==
    LET kept == SelectSeq(TextLines(t), LAMBDA l : ~IsBlankLine(l))
    IN  [i \in DOMAIN kept |-> StripWs(kept[i])]

\* The text as blank runs and non-blank lines: TRUE for each run of blank
\* lines, FALSE for each non-blank line
RECURSIVE RunsOf(_, _)
RunsOf(lines, in_run) ==
    IF lines = <<>> THEN <<>>
    ELSE IF IsBlankLine(Head(lines))
    THEN (IF in_run THEN <<>> ELSE <<TRUE>>) \o RunsOf(Tail(lines), TRUE)
    ELSE <<FALSE>> \o RunsOf(Tail(lines), FALSE)

BlankRuns(t) == RunsOf(TextLines(t), FALSE)

\* A sequence of runs without the blank run it starts with and the one it ends with
InnerRuns(r) ==
    LET from == IF r # <<>> /\ r[1] THEN 2 ELSE 1
        to == IF r # <<>> /\ r[Len(r)] THEN Len(r) - 1 ELSE Len(r)
    IN  SubSeq(r, from, to)

CleanDone == pc \in {"cleaned_pandoc", "cleaned_striprtf"}

\* C22 as first stated: the text _clean_markdown or _text_to_markdown returns
\* has no two blank lines in a row, every run of blank lines of the tool
\* output has become one blank line, and the non-blank lines are in their
\* order.  (The original claim, on the texts that have a non-blank line; one
\* that starts or ends with blank lines refutes it.)
C22_EveryRunBecomesOneBlankLine ==
    (CleanDone /\ NonBlankLines(arg) # <<>>) =>
        /\ NoTwoBlankLines(ret)
        /\ NonBlankLines(ret) = NonBlankLines(arg)
        /\ BlankRuns(ret) = BlankRuns(arg)

\* C22: the text _clean_markdown or _text_to_markdown returns has no two blank
\* lines in a row; every run of blank lines between two non-blank lines of
\* the tool output has become one blank line; the blank lines the output
\* starts with and ends with are gone; the non-blank lines are in their order.
C22_InnerRunsBecomeOneBlankLine ==
    CleanDone =>
        /\ NoTwoBlankLines(ret)
        /\ NonBlankLines(ret) = NonBlankLines(arg)
        /\ BlankRuns(ret) = InnerRuns(BlankRuns(arg))

\* C22 witness: two blank lines between two lines of the pandoc output have
\* become one
C22_Witness ==
    /\ pc = "cleaned_pandoc"
    /\ arg = <<"a", "\n", "\n", "\n", "a">>
    /\ ret = <<"a", "\n", "\n", "a">>

\* A flat run that wrote its cache index
CacheIndexWritten == FlatRunDone /\ <<CacheIndexName>> \in DOMAIN disk.files

\* The slugs of the items of the project
ItemSlugs == {Slugify(items[n].title) : n \in Nodes}

\* The directory name a folder entry of the cache index stands for
FolderOfId(id) == CHOOSE slug \in ItemSlugs : "folder-" \o slug = id

\* What the cache index enumerates, in the order of its entries, a folder
\* entry before the entries under it: a directory for each folder entry, a
\* file for each entry that carries a _filename
RECURSIVE Enumerated(_, _)
Enumerated(children, dir) ==
    IF children = <<>> THEN <<>>
    ELSE LET e == Head(children) IN
         (IF "_filename" \in DOMAIN e
          THEN <<[op |-> "write", path |-> Append(dir, e._filename)]>>
          ELSE <<[op |-> "mkdir", path |-> Append(dir, FolderOfId(e.id))]>>
               \o (IF "children" \in DOMAIN e
                   THEN Enumerated(e.children, Append(dir, FolderOfId(e.id)))
                   ELSE <<>>))
         \o Enumerated(Tail(children), dir)

CacheEnumerated == Enumerated(disk.files[<<CacheIndexName>>].children, <<>>)

\* What write_project did below the output root, in the order it did it: the
\* directories it made and the content files it wrote
WriteProjectDid ==
    LET did == SelectSeq(log, LAMBDA e : \/ e.op = "mkdir" /\ e.path # <<>>
                                         \/ e.op = "write" /\ e.kind = "content")
    IN  [i \in DOMAIN did |-> [op |-> did[i].op, path |-> did[i].path]]

\* The positions of a sequence that hold x
PositionsOf(seq, x) == {i \in DOMAIN seq : seq[i] = x}

\* C23 as first stated: the cache index of a flat run has exactly one entry
\* with a _filename for each content file write_project wrote, in traversal
\* order and with the name of the file, and exactly one folder entry for each
\* directory made below the output root.  (Two siblings of one slug are one
\* file or one directory, and two entries.)
C23_OneEntryPerFileAndDirectory ==
    CacheIndexWritten =>
        /\ Range(CacheEnumerated) = Range(WriteProjectDid)
        /\ \A x \in Range(WriteProjectDid) :
              Cardinality(PositionsOf(CacheEnumerated, x)) = 1

\* C23: the cache index of a flat run enumerates what write_project did: one
\* entry with a _filename for each write of a content file, with the name of
\* the file and under the folder entries of its directory, and one folder
\* entry for each mkdir below the output root, all in the order of the walk.
C23_OneEntryPerWrite ==
    CacheIndexWritten => CacheEnumerated = WriteProjectDid

\* C23 witness: the cache index lists a folder, a document in it and a
\* document under that document
C23_Witness ==
    /\ CacheIndexWritten
    /\ Len(CacheEnumerated) = 3
    /\ CacheEnumerated[1].op = "mkdir"
    /\ CacheEnumerated[2].op = "write" /\ Len(CacheEnumerated[2].path) = 2
    /\ CacheEnumerated[3].op = "write" /\ Len(CacheEnumerated[3].path) = 2
    /\ Len(items) = 3 /\ items[2].children = <<3>>

(***************************************************************************)
(* Projects with items that are a container and a content node at once: a  *)
(* folder labelled "Chapter" and a document titled "Part One", beside a    *)
(* plain folder and a plain document.                                      *)
(***************************************************************************)
MaxBothNodes == 3

BothArchetypes == {
    [item_type |-> "Folder", title |-> "Act One",  label |-> "Chapter"],
    [item_type |-> "Folder", title |-> "Act One",  label |-> ""],
    [item_type |-> "Text",   title |-> "Part One", label |-> ""],
    [item_type |-> "Text",   title |-> "Scene A",  label |-> "Scene"] }

InitBoth ==
    /\ pc = "start"
    /\ \E n \in 0..MaxBothNodes :
        \E p \in ParentVectors(n) :
            \E a \in [1..n -> BothArchetypes] :
                /\ items = [i \in 1..n |-> BinderItem(i, a[i], ChildrenFrom(p, n, i, 1))]
                /\ binder_items = ChildrenFrom(p, n, 0, 1)
    /\ yaml \in BOOLEAN
    /\ Unused
    /\ arg = <<>>
    /\ ret = ""

\* A nested run on such a project
SpecBoth == InitBoth /\ [][Next]_vars

\* The converted body of item n is in some file on the disk
BodyOnDisk(n) ==
    /\ items[n].converted_content # 0
    /\ \E p \in DOMAIN disk.files :
          /\ "body" \in DOMAIN disk.files[p]
          /\ disk.files[p].body = items[n].converted_content

\* C24: in a nested run a node that is a container and a content node at once
\* is treated as a container only: the walk that comes to it makes its
\* directory; no content file is written for it (nor fails to be); its
\* converted body is in no output file.
C24_BothIsContainerOnly ==
    NestedRunDone =>
        \A n \in Nodes : (SaidContainer(n) /\ SaidContent(n)) =>
            /\ ~SkippedAtAnyLevel(n) => MkdirOf(n) # {}
            /\ AssignedPaths(n) = {}
            /\ ~BodyOnDisk(n)

\* C24 witness: a folder labelled "Chapter" and, in it, a document titled
\* "Part One" have their directories, and the document in that one its file
C24_Witness ==
    /\ NestedRunDone
    /\ Len(items) = 3
    /\ items[1].item_type = "Folder" /\ MapType(items[1]) = "chapter"
    /\ items[2].item_type = "Text" /\ MapType(items[2]) = "part"
    /\ ParentOf(2) = 1 /\ ParentOf(3) = 2
    /\ MkdirOf(1) # {} /\ MkdirOf(2) # {}
    /\ ContentWrites(3) # {} /\ BodyOnDisk(3)
    /\ \A i \in ContentWrites(3) : Len(log[i].path) = 3

\* The paths index documents / content files were written to in the run
IndexPathsWritten ==
    {log[i].path : i \in {k \in DOMAIN log : log[k].op = "write" /\ log[k].kind = "index"}}
ContentPathsWritten ==
    {log[i].path : i \in {k \in DOMAIN log : log[k].op = "write" /\ log[k].kind = "content"}}

\* C25: in a nested run, for every format and every title, no content file is
\* written to the path of an index document of the run: no index document is
\* overwritten by a content file, and none overwrites one.  (The original
\* claim; a document titled "Index" written in the yaml format refutes it.)
C25_NoContentAtIndexPath ==
    NestedRunDone => IndexPathsWritten \cap ContentPathsWritten = {}

\* C25 for the markdown and json formats, where the extension of a content
\* file is not that of an index document
C25_OtherFormatsKeepApart ==
    (NestedRunDone /\ cfg.format # "yaml") =>
        IndexPathsWritten \cap ContentPathsWritten = {}

\* The title of n begins with "template", whatever the case of its letters
TemplateTitled(n) == StartsWith(LowerStr(Chars(items[n].title)), KwTemplate)

\* C26: in a nested run a top-level binder item whose title begins with
\* "template" (in any case) or whose kind is Trash, TrashFolder, ResearchFolder
\* or Root is left out with everything under it: no directory, no file, no
\* entry in any index.  The title and the ResearchFolder parts of the filter
\* are for top-level items only: below the top level an item with such a
\* title or kind, under an item the walk materialized, is materialized as any
\* other item that is a container or a content node.
C26_TopLevelFilter ==
    NestedRunDone =>
        /\ \A t \in Nodes :
              (ParentOf(t) = 0 /\
                 (TemplateTitled(t) \/
                  items[t].item_type \in {"Trash", "TrashFolder", "ResearchFolder", "Root"}))
              => \A n \in Nodes : Under(n, t) =>
                    /\ ~Acted(n)
                    /\ ~Indexed(n)
                    /\ \A p \in disk.dirs \cup DOMAIN disk.files :
                          p # <<>> => p[1] # Slugify(items[t].title)
                                      \/ \E m \in Nodes : ParentOf(m) = 0 /\ Acted(m)
                                            /\ Slugify(items[m].title) = Slugify(items[t].title)
        /\ \A n \in Nodes :
              (/\ ParentOf(n) # 0
               /\ TemplateTitled(n) \/ items[n].item_type = "ResearchFolder"
               /\ Acted(ParentOf(n))
               /\ ~Neither(n))
              => Acted(n)

\* C26 witness: a document titled "Template 1" in a folder has its file, and
\* nothing was done for a top-level item the filter leaves out
C26_Witness ==
    /\ NestedRunDone
    /\ \E f, n, t \in Nodes :
          /\ ParentOf(n) = f /\ MkdirOf(f) # {}
          /\ TemplateTitled(n) /\ ContentWrites(n) # {}
          /\ ParentOf(t) = 0
          /\ TemplateTitled(t) \/ items[t].item_type = "ResearchFolder"
          /\ ~Acted(t) /\ ~Indexed(t)

\* The content nodes the walk came to
VisitedContent == {n \in Nodes : ~SkippedAtAnyLevel(n) /\ ~SaidContainer(n)}

\* The positions of the errors recorded for n
ErrorsOf(n) == {i \in DOMAIN writer.errors : writer.errors[i].node = n}

\* The writes of the run, by the kind of the document
WritesOfKind(kind) == {i \in DOMAIN log : log[i].op = "write" /\ log[i].kind = kind}

\* C27: in a nested run that writes, every content node the walk comes to adds
\* one to files_written or one entry to errors, never both and never neither,
\* and every index document written adds one to files_written; so at the end
\* files_written + len(errors) is the number of content nodes visited plus the
\* number of index documents written (writes are counted: a path written
\* twice counts twice).
C27_EveryVisitIsCounted ==
    NestedRunDone =>
        /\ \A n \in VisitedContent :
              Cardinality(ContentWrites(n)) + Cardinality(ErrorsOf(n)) = 1
        /\ \A n \in Nodes \ VisitedContent : ContentWrites(n) = {} /\ ErrorsOf(n) = {}
        /\ writer.files_written =
              Cardinality(WritesOfKind("content")) + Cardinality(WritesOfKind("index"))
        /\ writer.files_written + Len(writer.errors) =
              Cardinality(VisitedContent) + Cardinality(WritesOfKind("index"))

\* C27 witness: two documents written to one path and the root index: three
\* counted writes, two files
C27_Witness ==
    /\ NestedRunDone
    /\ writer.files_written = 3
    /\ Cardinality(VisitedContent) = 2
    /\ Cardinality(DOMAIN disk.files) = 2
    /\ \E a, b \in VisitedContent : a # b /\ WrittenPaths(a) = WrittenPaths(b)

====
